---- MODULE Spec2Model ----
(***************************************************************************)
(* Verification model of ps-printer-app (src/ps-printer-app.c).            *)
(*                                                                         *)
(* The module holds one state machine per component of the program; the    *)
(* components share the variable list and each specification leaves the    *)
(* variables of the other components untouched:                            *)
(*   SpecEnc   the base-85 encoder ps_ascii85 called directly              *)
(*   SpecTwo   two jobs on two printers calling ps_ascii85 in turns        *)
(*   SpecPage  the raster callbacks streaming the pages of a job           *)
(*   SpecIo    the raster callbacks on a device that may refuse a write    *)
(*   SpecCancel  the raster callbacks of jobs that are canceled            *)
(*   SpecAbandon  the raster callbacks of jobs that give up pages          *)
(*   SpecRead    the read loop of one polled option, pass by pass          *)
(*   SpecLong    two jobs at a time with pages of many lines               *)
(*   SpecAutoAdd  ps_autoadd over device IDs and driver lists              *)
(*   SpecConfig  poll sessions and accessory forms on one printer          *)
(*   SpecFlag  SpecConfig with status callbacks at any time                *)
(*   SpecSlow  the poller against a printer whose answers may come late    *)
(*   SpecInit  the projection on printers whose PPDs differ in the         *)
(*             accessories installed by default                            *)
(*   SpecBins  the projection on printers whose output bins all belong to  *)
(*             the finisher                                                *)
(*   SpecMedia the projection ps_driver_setup under accessory changes of   *)
(*             the input trays and edits of the loaded media               *)
(*   SpecJob   the option resolver ps_create_job_data under accessory      *)
(*             changes and job requests                                    *)
(*   SpecPoll  the poller ps_poll_device_option_defaults and the web       *)
(*             handler's use of what it returns                            *)
(*   SpecPollFair  SpecPoll with the steps of a running poll session taken *)
(*             eventually (the function runs to its end without waiting    *)
(*             for anything but the bounded reads)                         *)
(*   SpecGray  the option resolver on printers whose PPDs differ in what   *)
(*             they say of colour                                          *)
(***************************************************************************)
EXTENDS Integers, Sequences, FiniteSets, TLC

VARIABLES
    encCol,        \* ps_ascii85: static int col
    encRemaining,  \* ps_ascii85: static remaining[3] with num_remaining, as a sequence
    encOut,        \* characters written to outputfp since the last end-of-data marker
    encIn,         \* bytes handed to ps_ascii85 since the last end-of-data marker
    encTodo,       \* bytes the caller still has to hand over
    encDone,       \* the session was ended by a call with last_data set
    pgState,       \* position of the raster callbacks: "idle", "job", "page", "pageEnd"
    lineCount,     \* job_data->line_count
    hdr,           \* options->header of the current page: cupsHeight, cupsBytesPerLine, cupsColorSpace
    rxLines,       \* number of ps_rwriteline calls of the current page
    fed,           \* the lines handed to ps_ascii85 for the current page, in order
    pagesDone,     \* papplJobGetImpressionsCompleted(job)
    devOut,        \* what the raster callbacks wrote to job_data->device_file, as
                   \* tokens: the DSC comments, "data" for a run of encoded raster,
                   \* "~>" for an end-of-data marker, the end-of-job text
    devStatus,     \* failed: papplDeviceWrite has failed in ps_print_filter_function
                   \* during this job; ret: what the last raster callback returned;
                   \* canceled: where the stream stood when the job was canceled
    drv,           \* the printer's driver data with extension and vendor attributes
    ppdMarked,     \* the choice marked for every option of the PPD (extension->ppd)
    projAct,       \* the operation that acted last on the driver data
    cycle,         \* the media_ready table before a source was taken away, while
                   \* the source is away or has just been put back
    jobReq,        \* job_options and the job's attributes, as handed to ps_create_job_data
    jobOptions,    \* job_data->options: the resolved set, keyword -> value
    jobSteps,      \* the resolved set as every step of ps_create_job_data left it
    jobResult,     \* "none", "returned" (job data exist) or "crashed"
    ppdFile,       \* what the PPD says of colour: ppd->color_device, the choices of
                   \* ColorModel, and pc->presets of its cache; the UIConstraints
                   \* it has on top of those of every PPD of the model
    poll           \* the poll session: scope, position in the option list, the
                   \* settings recorded, status, what was written to the device;
                   \* in SpecRead the read loop of one option, in SpecAutoAdd
                   \* the device found and the driver returned for it

encVars == <<encCol, encRemaining, encOut, encIn, encTodo, encDone>>

pageVars == <<pgState, lineCount, hdr, rxLines, fed, pagesDone, devOut, devStatus>>

projVars == <<drv, ppdMarked, projAct, cycle>>

jobVars == <<jobReq, jobOptions, jobSteps, jobResult, ppdFile>>

vars == <<encCol, encRemaining, encOut, encIn, encTodo, encDone,
          pgState, lineCount, hdr, rxLines, fed, pagesDone, devOut, devStatus,
          drv, ppdMarked, projAct, cycle,
          jobReq, jobOptions, jobSteps, jobResult, ppdFile, poll>>

----------------------------------------------------------------------------
(* Bounds *)

\* longest byte sequence handed to the encoder in one session
MaxLen == 5

\* byte values the inputs are drawn from
ByteVals == {0, 1, 255}

\* largest declared page height (cupsHeight), line length (cupsBytesPerLine)
\* and number of pages of a job
MaxHeight == 2
MaxBpl == 2
MaxPages == 2

\* largest number of sources that hold media other than the media every
\* source holds at first
MaxLoaded == 1

\* largest number of poll sessions
MaxPolls == 1

----------------------------------------------------------------------------
(* Helpers *)

Min(a, b) == IF a < b THEN a ELSE b

RECURSIVE SeqsUpTo(_, _)
SeqsUpTo(S, n) ==
    IF n = 0 THEN {<<>>}
    ELSE LET shorter == SeqsUpTo(S, n - 1)
         IN shorter \cup {Append(s, x) : s \in {t \in shorter : Len(t) = n - 1}, x \in S}

\* bitwise OR of two unsigned values (C operator |)
RECURSIVE BitOr(_, _)
BitOr(a, b) ==
    IF a = 0 THEN b
    ELSE IF b = 0 THEN a
    ELSE (IF (a % 2) + (b % 2) > 0 THEN 1 ELSE 0) + 2 * BitOr(a \div 2, b \div 2)

\* characters are modelled by their ASCII codes
ChNewline == 10
ChBang    == 33
ChGreater == 62
ChZ       == 122
ChTilde   == 126

----------------------------------------------------------------------------
(* ps_ascii85 *)

\* a 32-bit word b is held as its four bytes, most significant first
ZeroWord == <<0, 0, 0, 0>>

\* b / 85 and b % 85 by long division over the four bytes
DivMod85(w) ==
    LET c1 == w[1]
        c2 == (c1 % 85) * 256 + w[2]
        c3 == (c2 % 85) * 256 + w[3]
        c4 == (c3 % 85) * 256 + w[4]
    IN [quot |-> <<c1 \div 85, c2 \div 85, c3 \div 85, c4 \div 85>>,
        rem  |-> c4 % 85]

\* the five characters c[0..4] written for a non-zero word b
Base85Chars(b) ==
    LET d4 == DivMod85(b)
        d3 == DivMod85(d4.quot)
        d2 == DivMod85(d3.quot)
        d1 == DivMod85(d2.quot)
    IN << d1.quot[4] + ChBang, d1.rem + ChBang, d2.rem + ChBang,
          d3.rem + ChBang, d4.rem + ChBang >>

\* the word built on the fast path: four bytes, big-endian
WordOfFour(d) == <<d[1], d[2], d[3], d[4]>>

\* the statement "b << 8;" inside the byte-collecting loop: the shifted
\* value is discarded, b keeps its value
ShiftStatement(b) == b

\* b |= byte
OrByte(b, byte) == <<b[1], b[2], b[3], BitOr(b[4], byte)>>

\* the word built by the byte-collecting loop from the held bytes followed by
\* the new data: up to four bytes are or-ed into b
RECURSIVE CollectWord(_, _, _)
CollectWord(bytes, i, b) ==
    IF i > 4 THEN b
    ELSE LET b1 == ShiftStatement(b)
         IN CollectWord(bytes, i + 1,
                        IF i <= Len(bytes) THEN OrByte(b1, bytes[i]) ELSE b1)

\* what is written for one word
EmitWord(b) == IF b = ZeroWord THEN <<ChZ>> ELSE Base85Chars(b)

\* the newline written once the column has reached 75, and the column then
WrapAfter(col) == IF col >= 75 THEN <<ChNewline>> ELSE <<>>

ColAfter(col) == IF col >= 75 THEN 0 ELSE col

\* one pass of the while loop that encodes a word: the word b and the number
\* i of bytes of data it consumed
NextWord(rem, data) ==
    IF Len(rem) > 0 \/ Len(data) < 4
    THEN [b |-> CollectWord(rem \o data, 1, ZeroWord),
          i |-> Min(4 - Len(rem), Len(data))]
    ELSE [b |-> WordOfFour(data), i |-> 4]

\* the while loop of ps_ascii85; the result is the static state on leaving
\* the loop, the characters written, and whether the function returned from
\* inside the loop to hold the bytes for the next call
RECURSIVE Ascii85Loop(_, _, _, _, _)

\* the end of one pass: the word's characters w are written, i bytes of data
\* are consumed, the line is wrapped, and the loop goes on
Ascii85Pass(col, data, last, out, i, w) ==
    Ascii85Loop(ColAfter(col + Len(w)), <<>>, SubSeq(data, i + 1, Len(data)),
                last, out \o w \o WrapAfter(col + Len(w)))

Ascii85Word(col, data, last, out, nw) ==
    Ascii85Pass(col, data, last, out, nw.i, EmitWord(nw.b))

Ascii85Loop(col, rem, data, last, out) ==
    IF Len(rem) + Len(data) = 0
    THEN [col |-> col, rem |-> rem, out |-> out, held |-> FALSE]
    ELSE IF Len(rem) + Len(data) < 4 /\ ~last
    THEN [col |-> col, rem |-> rem \o data, out |-> out, held |-> TRUE]
    ELSE Ascii85Word(col, data, last, out, NextWord(rem, data))

\* an end that writes the marker and leaves the static state as it is
Ascii85EndKeep(r, last) ==
    IF last /\ ~r.held
    THEN [col |-> r.col, rem |-> r.rem,
          out |-> r.out \o <<ChTilde, ChGreater, ChNewline>>]
    ELSE [col |-> r.col, rem |-> r.rem, out |-> r.out]

\* the end of ps_ascii85: on the last call the end-of-data marker is written
\* and the static state is reset
Ascii85End(r, last) ==
    IF last /\ ~r.held
    THEN [col |-> 0, rem |-> <<>>,
          out |-> r.out \o <<ChTilde, ChGreater, ChNewline>>]
    ELSE [col |-> r.col, rem |-> r.rem, out |-> r.out]

\* one call ps_ascii85(outputfp, data, length, last_data): the new static
\* state and the characters written
Ascii85(col, rem, data, last) ==
    Ascii85End(Ascii85Loop(col, rem, data, last, <<>>), last)

----------------------------------------------------------------------------
(* A standard ASCII85 decoder, used to state the round trip *)

\* w * 85 + d over the four bytes of w; carry is what does not fit 32 bits
MulAdd85(w, d) ==
    LET c4 == w[4] * 85 + d
        c3 == w[3] * 85 + (c4 \div 256)
        c2 == w[2] * 85 + (c3 \div 256)
        c1 == w[1] * 85 + (c2 \div 256)
    IN [word |-> <<c1 % 256, c2 % 256, c3 % 256, c4 % 256>>,
        carry |-> c1 \div 256]

\* value of a group of n digits padded with 'u' (84) to five digits, as a
\* word; carry > 0 when the value exceeds 32 bits
RECURSIVE GroupValue(_, _, _)
GroupValue(g, k, acc) ==
    IF k > 5 THEN acc
    ELSE LET d == IF k <= Len(g) THEN g[k] - ChBang ELSE 84
             m == MulAdd85(acc.word, d)
         IN GroupValue(g, k + 1,
                       [word |-> m.word, carry |-> acc.carry + m.carry])

GroupWord(g) == GroupValue(g, 1, [word |-> ZeroWord, carry |-> 0])

\* decode text s from position i on; g is the open group; the result is the
\* byte sequence, or <<-1>> when s is not a well-formed ASCII85 stream
Malformed == <<-1>>

RECURSIVE Decode85(_, _, _, _)
Decode85(s, i, g, acc) ==
    IF i > Len(s) THEN Malformed
    ELSE LET c == s[i] IN
         IF c = ChNewline THEN Decode85(s, i + 1, g, acc)
         ELSE IF c = ChTilde
         THEN IF i + 1 > Len(s) \/ s[i + 1] # ChGreater \/ Len(g) = 1
              THEN Malformed
              ELSE IF Len(g) = 0 THEN acc
              ELSE acc \o SubSeq(GroupWord(g).word, 1, Len(g) - 1)
         ELSE IF c = ChZ
         THEN IF Len(g) # 0 THEN Malformed
              ELSE Decode85(s, i + 1, g, acc \o <<0, 0, 0, 0>>)
         ELSE IF c < ChBang \/ c > ChBang + 84 THEN Malformed
         ELSE IF Len(g) = 4
         THEN LET v == GroupWord(Append(g, c))
              IN IF v.carry > 0 THEN Malformed
                 ELSE Decode85(s, i + 1, <<>>, acc \o v.word)
         ELSE Decode85(s, i + 1, Append(g, c), acc)

Decode(s) == Decode85(s, 1, <<>>, <<>>)

----------------------------------------------------------------------------
(* The raster callbacks: ps_rstartjob, ps_rstartpage, ps_rwriteline,       *)
(* ps_rendpage, ps_rendjob                                                 *)

\* colour spaces of the page header (cupsColorSpace)
ColorSpaces == {"W", "RGB", "K", "CMYK", "SW", "SRGB"}

NoHeader == [height |-> 0, bpl |-> 0, cspace |-> "W"]

Headers == [height : 1..MaxHeight, bpl : 1..MaxBpl, cspace : ColorSpaces]

\* the bytes of a raster line: all pixels off, all pixels on
PixelVals == {0, 255}

\* the set of raster lines of n bytes
LinesOf(n) == {l \in SeqsUpTo(PixelVals, n) : Len(l) = n}

\* mutant of PadByte: the padding is white whatever the colour space
PadByteAlwaysWhite(cspace) == 255

\* memset value of the padding line in ps_rendpage
PadByte(cspace) == IF cspace = "K" \/ cspace = "CMYK" THEN 0 ELSE 255

PadLine(h) == [i \in 1..h.bpl |-> PadByte(h.cspace)]

\* the padding loop of ps_rendpage: st = [col, rem, out] is the encoder,
\* lc is line_count
RECURSIVE PadLoop(_, _, _, _)

PadStep(st, lc, h, fedSoFar, r) ==
    PadLoop([col |-> r.col, rem |-> r.rem, out |-> st.out \o r.out], lc + 1, h,
            Append(fedSoFar, [kind |-> "pad", bytes |-> PadLine(h)]))

PadLoop(st, lc, h, fedSoFar) ==
    IF lc < h.height
    THEN PadStep(st, lc, h, fedSoFar, Ascii85(st.col, st.rem, PadLine(h), FALSE))
    ELSE [col |-> st.col, rem |-> st.rem, out |-> st.out, lc |-> lc,
          fed |-> fedSoFar]

\* an end of job that is the JCL of the PPD or nothing
EndOfJobJcl(d) == d.jcl_end

\* lines 2822-2832 and 3476-3479: what ends a job on the device
EndOfJob(d) == IF d.jcl_end # "" THEN d.jcl_end ELSE "0x04"

\* no job has written to the device; canceled is the number of parts the
\* job had written to its device stream when its cancellation was
\* signalled (papplJobIsCanceled turns true), -1 while it is not
NoDevStatus == [failed |-> FALSE, ret |-> TRUE, canceled |-> -1]

\* a raster callback has written to job_data->device_file; fails: the filter
\* function could not pass the bytes on (papplDeviceWrite < 0, 2444-2453).
\* No callback tests what fputs, fprintf, fputc or ps_ascii85 made of the
\* write, each ends in return (true) (3495, 3543, 3644, 3740, 3767)
Callback(status, fails) ==
    [status EXCEPT !.failed = status.failed \/ fails, !.ret = TRUE]

\* whether the next write can fail: once papplDeviceWrite has failed the
\* filter function has returned (2451-2453) and passes nothing on
Failures(status, failures) == IF status.failed THEN {FALSE} ELSE failures

\* the decimal text of a page number or a page count
RECURSIVE Decimal(_)
Decimal(n) ==
    IF n < 10 THEN <<"0", "1", "2", "3", "4", "5", "6", "7", "8", "9">>[n + 1]
    ELSE Decimal(n \div 10) \o Decimal(n % 10)

\* ps_rstartjob (3597-3642): the DSC header, the prolog and the setup
JobProlog ==
    <<"%!PS-Adobe-3.0", "%%Pages: (atend)", "%%EndComments",
      "%%BeginProlog", "%%EndProlog", "%%BeginSetup", "%%EndSetup">>

\* ps_rstartpage (3672-3738): the page marker, the page setup, the image
\* dictionary that reads its data through /ASCII85Decode
PageProlog(page) ==
    <<"%%Page: (" \o Decimal(page) \o ") " \o Decimal(page),
      "%%BeginPageSetup", "%%EndPageSetup", "gsave", "image">>

\* ps_rendpage (3537-3539)
PageTrailer == <<"grestore", "showpage", "%%PageTrailer">>

\* a trailer that gives the page count of every job
JobTrailerAlways(num_pages) ==
    <<"%%Trailer", "%%Pages: " \o Decimal(num_pages), "%%EOF">>

\* ps_rendjob (3471-3474): the page count is written when it is positive
JobTrailer(num_pages) ==
    <<"%%Trailer">>
    \o (IF num_pages > 0 THEN <<"%%Pages: " \o Decimal(num_pages)>> ELSE <<>>)
    \o <<"%%EOF">>

\* the characters ps_ascii85 wrote, as they stand in the device stream: an
\* end-of-data marker is "~>", a run of other characters is "data", line
\* breaks are white space
RECURSIVE Written(_, _)
Written(stream, chars) ==
    IF chars = <<>> THEN stream
    ELSE IF Len(chars) >= 2 /\ chars[1] = ChTilde /\ chars[2] = ChGreater
    THEN Written(Append(stream, "~>"), SubSeq(chars, 3, Len(chars)))
    ELSE IF chars[1] = ChNewline THEN Written(stream, Tail(chars))
    ELSE IF stream # <<>> /\ stream[Len(stream)] = "data"
    THEN Written(stream, Tail(chars))
    ELSE Written(Append(stream, "data"), Tail(chars))

\* a flush that leaves the raster open
EndOfDataMissing(col, remaining) == Ascii85(col, remaining, <<>>, FALSE)

\* ps_rendpage (3534): ps_ascii85(devout, NULL, 0, 1)
EndOfData(col, remaining) == Ascii85(col, remaining, <<>>, TRUE)

\* ps_rstartpage: line_count = 0, page header and image prologue written;
\* failures: whether the device may refuse what is written
StartPage(failures) ==
    /\ pgState \in {"job", "pageEnd"}
    /\ pagesDone < MaxPages
    /\ \E h \in Headers : hdr' = h
    /\ pgState' = "page"
    /\ lineCount' = 0
    /\ rxLines' = 0
    /\ fed' = <<>>
    /\ encOut' = <<>>
    /\ encIn' = <<>>
    /\ devOut' = devOut \o PageProlog(pagesDone + 1)
    /\ \E fails \in Failures(devStatus, failures) : devStatus' = Callback(devStatus, fails)
    /\ UNCHANGED <<encCol, encRemaining, encTodo, encDone, pagesDone>>
    /\ UNCHANGED <<projVars, jobVars, poll>>

\* a test that lets every line through
InsidePageAlways(lc, h) == TRUE

\* ps_rwriteline (3763): job_data->line_count < options->header.cupsHeight
InsidePage(lc, h) == lc < h.height

\* ps_rwriteline: the line is encoded only while line_count < cupsHeight
WriteLine(failures) ==
    /\ pgState = "page"
    /\ rxLines <= hdr.height
    /\ \E pixels \in LinesOf(hdr.bpl) :
         IF InsidePage(lineCount, hdr)
         THEN \E r \in {Ascii85(encCol, encRemaining, pixels, FALSE)} :
                 /\ encCol' = r.col
                 /\ encRemaining' = r.rem
                 /\ encOut' = encOut \o r.out
                 /\ encIn' = encIn \o pixels
                 /\ fed' = Append(fed, [kind |-> "line", bytes |-> pixels])
                 /\ devOut' = Written(devOut, r.out)
         ELSE UNCHANGED <<encCol, encRemaining, encOut, encIn, fed, devOut>>
    /\ lineCount' = lineCount + 1
    /\ rxLines' = rxLines + 1
    /\ \E fails \in Failures(devStatus, failures) : devStatus' = Callback(devStatus, fails)
    /\ UNCHANGED <<encTodo, encDone, pgState, hdr, pagesDone>>
    /\ UNCHANGED <<projVars, jobVars, poll>>

\* ps_rendpage: pad a short page, flush the encoder, finish the page
EndPage(failures) ==
    /\ pgState = "page"
    /\ \E p \in {PadLoop([col |-> encCol, rem |-> encRemaining, out |-> <<>>],
                         lineCount, hdr, fed)} :
       \E r \in {EndOfData(p.col, p.rem)} :
          /\ encCol' = r.col
          /\ encRemaining' = r.rem
          /\ encOut' = encOut \o p.out \o r.out
          /\ encIn' = encIn \o
                 [i \in 1..((Len(p.fed) - Len(fed)) * hdr.bpl) |-> PadByte(hdr.cspace)]
          /\ lineCount' = p.lc
          /\ fed' = p.fed
          /\ devOut' = Written(devOut, p.out \o r.out) \o PageTrailer
    /\ pgState' = "pageEnd"
    /\ pagesDone' = pagesDone + 1
    /\ \E fails \in Failures(devStatus, failures) : devStatus' = Callback(devStatus, fails)
    /\ UNCHANGED <<encTodo, encDone, hdr, rxLines>>
    /\ UNCHANGED <<projVars, jobVars, poll>>

\* the page callbacks on a device that takes every write
RStartPage == StartPage({FALSE})
RWriteLine == WriteLine({FALSE})
REndPage == EndPage({FALSE})

\* the page callbacks on a device that may refuse a write
IoStartPage == StartPage(BOOLEAN)
IoWriteLine == WriteLine(BOOLEAN)
IoEndPage == EndPage(BOOLEAN)

----------------------------------------------------------------------------
(* The capability model: the PPD file and its cache (ppd, pc), as loaded   *)
(* by ps_driver_setup in Init mode.  One printer model is fixed here; its  *)
(* three input trays, its duplex unit and its finisher are accessories.    *)

Ch(c, t) == [choice |-> c, text |-> t]

BoolChoices == <<Ch("True", "True"), Ch("False", "False")>>

\* ppd->groups: the option keywords of each group, in file order
PpdGroups ==
    << [name |-> "General",
        options |-> <<"PageSize", "InputSlot", "MediaType", "Resolution",
                      "ColorModel", "OutputBin", "Duplex", "Smoothing">>],
       [name |-> "Finishing",
        options |-> <<"Booklet", "StapleLocation", "TonerSave">>],
       [name |-> "InstallableOptions",
        options |-> <<"InstTray1", "InstTray2", "InstTray3", "InstDuplexer",
                      "InstFinisher">>] >>

InstallableOptions == {"InstTray1", "InstTray2", "InstTray3", "InstDuplexer",
                       "InstFinisher"}

\* option->choices of every option
PpdChoices ==
    [ PageSize       |-> <<Ch("A4", "A4"), Ch("Letter", "Letter"), Ch("Legal", "Legal"),
                           Ch("Custom", "Custom")>>,
      InputSlot      |-> <<Ch("Tray1", "Tray 1"), Ch("Tray2", "Tray 2"), Ch("Tray3", "Tray 3")>>,
      MediaType      |-> <<Ch("Plain", "Plain"), Ch("Glossy", "Glossy")>>,
      Resolution     |-> <<Ch("600dpi", "600 dpi"), Ch("300dpi", "300 dpi"),
                           Ch("1200x600dpi", "1200x600 dpi")>>,
      ColorModel     |-> <<Ch("RGB", "Color"), Ch("Gray", "Grayscale")>>,
      OutputBin      |-> <<Ch("Upper", "Upper"), Ch("Stacker", "Stacker")>>,
      Duplex         |-> <<Ch("None", "Off"), Ch("DuplexNoTumble", "Long Edge"),
                           Ch("DuplexTumble", "Short Edge")>>,
      Smoothing      |-> <<Ch("On", "On")>>,
      Booklet        |-> BoolChoices,
      StapleLocation |-> <<Ch("None", "None"), Ch("Single", "Single"), Ch("Dual", "Dual")>>,
      TonerSave      |-> <<Ch("Off", "Off"), Ch("On", "On")>>,
      InstTray1      |-> BoolChoices,
      InstTray2      |-> BoolChoices,
      InstTray3      |-> BoolChoices,
      InstDuplexer   |-> BoolChoices,
      InstFinisher   |-> BoolChoices ]

PpdOptions == DOMAIN PpdChoices

\* the choices marked by ppdMarkDefaults
PpdDefaults ==
    [ PageSize |-> "Letter", InputSlot |-> "Tray2", MediaType |-> "Plain",
      Resolution |-> "600dpi", ColorModel |-> "RGB", OutputBin |-> "Upper",
      Duplex |-> "None", Smoothing |-> "On", Booklet |-> "False", StapleLocation |-> "None",
      TonerSave |-> "Off", InstTray1 |-> "True", InstTray2 |-> "True",
      InstTray3 |-> "True", InstDuplexer |-> "True", InstFinisher |-> "True" ]

\* the UIConstraints that involve an installable option: the choice
\* (opt, choice) is not available while (iopt, ichoice) is marked
Con(io, ic, o, c) == [iopt |-> io, ichoice |-> ic, opt |-> o, choice |-> c]

Constraints ==
    { Con("InstTray1", "False", "InputSlot", "Tray1"),
      Con("InstTray2", "False", "InputSlot", "Tray2"),
      Con("InstTray3", "False", "InputSlot", "Tray3"),
      Con("InstTray3", "False", "PageSize", "Legal"),
      Con("InstTray2", "False", "MediaType", "Glossy"),
      Con("InstDuplexer", "False", "Duplex", "DuplexNoTumble"),
      Con("InstDuplexer", "False", "Duplex", "DuplexTumble"),
      Con("InstDuplexer", "False", "Resolution", "1200x600dpi"),
      Con("InstFinisher", "False", "OutputBin", "Stacker"),
      Con("InstFinisher", "False", "Booklet", "True"),
      Con("InstDuplexer", "False", "Booklet", "False"),
      Con("InstFinisher", "False", "StapleLocation", "Single"),
      Con("InstFinisher", "False", "StapleLocation", "Dual") }

\* ppdInstallableConflict(ppd, option, choice) under the markings m; the
\* UIConstraints are those of every PPD of the model and those of the PPD
\* of the printer alone
InstallableConflict(m, opt, choice) ==
    \E c \in Constraints \cup ppdFile.constraints :
        c.opt = opt /\ c.choice = choice /\ m[c.iopt] = c.ichoice

\* the PPD cache: PWG names of sources, types, sizes and bins with the PPD
\* choice each stands for
Map(pwgName, ppdName) == [pwg |-> pwgName, ppd |-> ppdName]

CacheSources == <<Map("tray-1", "Tray1"), Map("tray-2", "Tray2"), Map("tray-3", "Tray3")>>
CacheTypes   == <<Map("stationery", "Plain"), Map("photographic-glossy", "Glossy")>>
CacheSizes   == <<Map("iso_a4_210x297mm", "A4"), Map("na_letter_8.5x11in", "Letter"),
                  Map("na_legal_8.5x14in", "Legal")>>
CacheBins    == <<Map("top", "Upper"), Map("stacker-1", "Stacker")>>

SourceOption    == "InputSlot"
SidesOption     == "Duplex"
Sides1Sided     == "None"
Sides2SidedLong == "DuplexNoTumble"
Sides2SidedShort == "DuplexTumble"

\* pc->finishings: IPP finishing value and the PPD options that select it
CacheFinishings ==
    << [value |-> "staple", options |-> <<[name |-> "StapleLocation", value |-> "Single"]>>],
       [value |-> "punch",  options |-> <<[name |-> "OutputBin", value |-> "Stacker"]>>] >>

\* ppdPwgUnppdizeName on the option and choice texts of this model
Unppdize(text) ==
    CASE text = "Booklet"        -> "booklet"
      [] text = "StapleLocation" -> "staple-location"
      [] text = "TonerSave"      -> "toner-save"
      [] text = "True"           -> "true"
      [] text = "False"          -> "false"
      [] text = "None"           -> "none"
      [] text = "Single"         -> "single"
      [] text = "Dual"           -> "dual"
      [] text = "Off"            -> "off"
      [] text = "On"             -> "on"
      [] OTHER                   -> text

\* option->text, the human-readable name the IPP attribute name is made of
OptionText(opt) == opt

\* sscanf(choice, "%dx%d") on the resolution choices of this model
ParseResolution(choice) ==
    CASE choice = "300dpi"      -> <<300, 300>>
      [] choice = "600dpi"      -> <<600, 600>>
      [] choice = "1200x600dpi" -> <<1200, 600>>
      [] OTHER                  -> <<0, 0>>

\* the capacities of source[] and media_ready[], type[], media[], bin[]
\* and vendor[]
PAPPL_MAX_SOURCE == 16
PAPPL_MAX_TYPE   == 32
PAPPL_MAX_MEDIA  == 256
PAPPL_MAX_BIN    == 16
PAPPL_MAX_VENDOR == 32

\* the options that have a query script ("?Keyword" attribute with value)
PpdQueries == {"PageSize", "Duplex", "Smoothing", "StapleLocation",
               "InstDuplexer", "InstFinisher"}

\* option->ui
PpdUi(opt) == IF PpdChoices[opt] = BoolChoices THEN "BOOLEAN" ELSE "PICKONE"

\* the options PAPPL handles itself (lines 1013-1024)
pappl_handled_options == <<"PageSize", "PageRegion", "InputSlot", "MediaType",
                           "Resolution", "ColorModel", "OutputBin", "Duplex">>

\* strcasecmp(text, word) == 0 for the words "true" and "false"
TextIs(text, word) == Unppdize(text) = word

\* strncasecmp(group->name, "Installable", 11) == 0
IsInstallableGroup(name) == name = "InstallableOptions"

----------------------------------------------------------------------------
(* ps_driver_setup: the projection of the capability model onto the driver *)
(* data.  u is TRUE in Update mode and FALSE in Init mode; d is the driver *)
(* data with its extension and vendor attributes; m is the marking of the  *)
(* PPD options.  Every step returns the pair [d |-> ..., m |-> ...].       *)

DM(d, m) == [d |-> d, m |-> m]

\* Rest(x) for the value x of e: the code runs e to its end, then goes on
Then(e, Rest(_)) == CHOOSE r \in { Rest(x) : x \in {e} } : TRUE

Mark(m, opt, choice) == [m EXCEPT ![opt] = choice]

\* strcasecmp and strncasecmp: the names of this model in lower case
Lower(s) ==
    CASE s = "True" -> "true"       [] s = "False" -> "false"
      [] s = "A4" -> "a4"           [] s = "Letter" -> "letter"
      [] s = "Legal" -> "legal"     [] s = "Custom" -> "custom"
      [] s = "Tray1" -> "tray1"     [] s = "Tray2" -> "tray2"
      [] s = "Tray3" -> "tray3"     [] s = "Plain" -> "plain"
      [] s = "Glossy" -> "glossy"   [] s = "RGB" -> "rgb"
      [] s = "Gray" -> "gray"       [] s = "Upper" -> "upper"
      [] s = "Stacker" -> "stacker" [] s = "None" -> "none"
      [] s = "DuplexNoTumble" -> "duplexnotumble"
      [] s = "DuplexTumble" -> "duplextumble"
      [] s = "Single" -> "single"   [] s = "Dual" -> "dual"
      [] s = "Off" -> "off"         [] s = "On" -> "on"
      [] s = "Unknown" -> "unknown" [] s = "Custom.A5" -> "custom.a5"
      [] OTHER -> s

\* the texts that begin with "Custom." or with "{"
CustomValues == {"Custom.A5", "custom.a5"}

\* ppdFindChoice(option, text) of libppd: a custom value stands for the
\* choice "Custom", names are compared without regard to case
ChoiceSought(text) == IF text \in CustomValues THEN "Custom" ELSE text

\* a lookup that finds whatever it is asked for
FindChoiceAny(opt, text) == TRUE

FindChoice(opt, text) ==
    \E k \in 1..Len(PpdChoices[opt]) :
        Lower(PpdChoices[opt][k].choice) = Lower(ChoiceSought(text))

\* the choice ppdFindChoice returns
ChoiceFound(opt, text) ==
    PpdChoices[opt][CHOOSE k \in 1..Len(PpdChoices[opt]) :
        Lower(PpdChoices[opt][k].choice) = Lower(ChoiceSought(text))]

\* ppdMarkOption(ppd, opt, text) for a text from outside the PPD
MarkText(m, opt, text) ==
    IF opt \in PpdOptions /\ FindChoice(opt, text)
    THEN Mark(m, opt, ChoiceFound(opt, text).choice) ELSE m

\* a projection that offers every choice
OfferedAll(u, m, opt, choice) == TRUE

\* a choice is offered unless Update mode finds it in conflict (1253, 1317,
\* 1411, 1446, 1511, 1693, 1906)
Offered(u, m, opt, choice) == ~(u /\ InstallableConflict(m, opt, choice))

\* lines 1248-1279
SidesSupported(u, m) ==
    {"one-sided"}
    \cup (IF Offered(u, m, SidesOption, Sides2SidedLong)
          THEN {"two-sided-long-edge"} ELSE {})
    \cup (IF Offered(u, m, SidesOption, Sides2SidedShort)
          THEN {"two-sided-short-edge"} ELSE {})

SidesDefault(u, d, m) ==
    IF u THEN d.sides_default
    ELSE IF m[SidesOption] = Sides2SidedShort THEN "two-sided-short-edge"
    ELSE IF m[SidesOption] = Sides2SidedLong THEN "two-sided-long-edge"
    ELSE "one-sided"

\* the test of line 1274: "==" binds tighter than "&", so the default is
\* and-ed with the truth value of (sides_supported == 0)
SidesTest(sidesDefault, sidesSupported) ==
    sidesDefault = "one-sided" /\ sidesSupported = {}

SidesStep(u, d, m) ==
    IF SidesTest(SidesDefault(u, d, m), SidesSupported(u, m))
    THEN DM([d EXCEPT !.sides_supported = SidesSupported(u, m),
                      !.sides_default = "one-sided"],
            Mark(m, SidesOption, Sides1Sided))
    ELSE DM([d EXCEPT !.sides_supported = SidesSupported(u, m),
                      !.sides_default = SidesDefault(u, d, m)], m)

\* lines 1281-1300
FinishingOffered(u, m, f) ==
    \A i \in 1..Len(f.options) :
        Offered(u, m, f.options[i].name, f.options[i].value)

FinishingsStep(u, d, m) ==
    DM([d EXCEPT !.finishings =
            { CacheFinishings[i].value : i \in
                { n \in 1..Len(CacheFinishings) :
                    FinishingOffered(u, m, CacheFinishings[n]) } }], m)

\* lines 1341-1359: one pass that lets the entry appended last sink to its
\* place in the sorted list
ResLess(a, b) == a[1] < b[1] \/ (a[1] = b[1] /\ a[2] < b[2])

RECURSIVE ResSink(_, _)
ResSink(list, k) ==
    IF k < 1 THEN list
    ELSE ResSink(IF ResLess(list[k + 1], list[k])
                 THEN [list EXCEPT ![k] = list[k + 1], ![k + 1] = list[k]]
                 ELSE list, k - 1)

\* the choice just read becomes the default in Update mode whatever the old
\* default was
ResIsDefaultLatest(u, d, m, acc, ch) ==
    \/ Len(acc.list) = 0
    \/ ~u /\ m["Resolution"] = ch.choice
    \/ u

\* lines 1330-1340: the choice just read becomes the default when it is the
\* first one, when it is marked (Init) or when it is the old default (Update)
ResIsDefault(u, d, m, acc, ch) ==
    \/ Len(acc.list) = 0
    \/ ~u /\ m["Resolution"] = ch.choice
    \/ u /\ <<d.x_default, d.y_default>> = ParseResolution(ch.choice)

ResAccept(u, d, m, acc, ch) ==
    [ list |-> ResSink(Append(acc.list, ParseResolution(ch.choice)), Len(acc.list)),
      def  |-> IF ResIsDefault(u, d, m, acc, ch)
               THEN ParseResolution(ch.choice) ELSE acc.def,
      defChoice |-> IF ResIsDefault(u, d, m, acc, ch)
                    THEN ch.choice ELSE acc.defChoice ]

\* lines 1314-1361
RECURSIVE ResLoop(_, _, _, _, _)
ResLoop(u, d, m, i, acc) ==
    IF i > Len(PpdChoices["Resolution"]) \/ Len(acc.list) >= PAPPL_MAX_SOURCE
    THEN acc
    ELSE ResLoop(u, d, m, i + 1,
                 IF Offered(u, m, "Resolution", PpdChoices["Resolution"][i].choice)
                 THEN ResAccept(u, d, m, acc, PpdChoices["Resolution"][i])
                 ELSE acc)

\* lines 1362-1397
ResFinish(d, m, acc) ==
    IF Len(acc.list) > 0
    THEN DM([d EXCEPT !.resolution = acc.list,
                      !.x_default = acc.def[1], !.y_default = acc.def[2]],
            Mark(m, "Resolution", acc.defChoice))
    ELSE DM([d EXCEPT !.resolution = <<<<300, 300>>>>,
                      !.x_default = 300, !.y_default = 300], m)

\* lines 1302-1397
ResolutionStep(u, d, m) ==
    ResFinish(d, m, ResLoop(u, d, m, 1, [list |-> <<>>, def |-> <<0, 0>>,
                                          defChoice |-> ""]))

\* lines 1415-1418, 1449-1452, 1515-1518: the entry just added becomes the
\* default when it is the first one, when its choice is marked (Init) or
\* when it is the old default of media_default (Update)
PwgIsDefault(u, m, opt, oldDef, acc, map) ==
    \/ Len(acc.list) = 0
    \/ ~u /\ m[opt] = map.ppd
    \/ u /\ map.pwg = oldDef

PwgAccept(u, m, opt, oldDef, acc, map) ==
    IF PwgIsDefault(u, m, opt, oldDef, acc, map)
    THEN [list |-> Append(acc.list, map.pwg), def |-> map.pwg,
          m |-> Mark(acc.m, opt, map.ppd)]
    ELSE [list |-> Append(acc.list, map.pwg), def |-> acc.def, m |-> acc.m]

\* the loops of lines 1408-1424, 1443-1458 and 1508-1535 over the cache
\* entries maps of option opt; m is the marking found before the loop (the
\* choice read by ppdFindMarkedChoice), acc.m the marking the loop builds
RECURSIVE PwgLoop(_, _, _, _, _, _, _, _)
PwgLoop(u, m, opt, maps, cap, oldDef, i, acc) ==
    IF i > Len(maps) \/ Len(acc.list) >= cap THEN acc
    ELSE PwgLoop(u, m, opt, maps, cap, oldDef, i + 1,
                 IF Offered(u, acc.m, opt, maps[i].ppd)
                 THEN PwgAccept(u, m, opt, oldDef, acc, maps[i])
                 ELSE acc)

PwgStart(m) == [list |-> <<>>, def |-> "", m |-> m]

\* lines 1399-1432
SourceFinish(d, acc) ==
    IF Len(acc.list) = 0
    THEN [d |-> [d EXCEPT !.source = <<"default">>], m |-> acc.m, def |-> "default"]
    ELSE [d |-> [d EXCEPT !.source = acc.list], m |-> acc.m, def |-> acc.def]

SourceStep(u, d, m) ==
    SourceFinish(d, PwgLoop(u, m, SourceOption, CacheSources, PAPPL_MAX_SOURCE,
                            d.media_default.source, 1, PwgStart(m)))

\* lines 1434-1466
TypeFinish(d, acc) ==
    IF Len(acc.list) = 0
    THEN [d |-> [d EXCEPT !.type = <<"auto">>], m |-> acc.m, def |-> "auto"]
    ELSE [d |-> [d EXCEPT !.type = acc.list], m |-> acc.m, def |-> acc.def]

TypeStep(u, d, m) ==
    TypeFinish(d, PwgLoop(u, m, "MediaType", CacheTypes, PAPPL_MAX_TYPE,
                          d.media_default.type, 1, PwgStart(m)))

\* ps_media_col (2329-2351) for the size, source and type names
MediaCol(sizeName, source, type) ==
    [size_name |-> sizeName, source |-> source, type |-> type]

\* lines 1468-1563: the size list, and media_default when a size is offered
SizeFinish(d, acc, defSource, defType) ==
    DM([d EXCEPT !.media = acc.list,
                 !.media_default = IF acc.def # ""
                                   THEN MediaCol(acc.def, defSource, defType)
                                   ELSE @], acc.m)

SizeStep(u, d, m, defSource, defType) ==
    SizeFinish(d, PwgLoop(u, m, "PageSize", CacheSizes, PAPPL_MAX_MEDIA,
                          d.media_default.size_name, 1, PwgStart(m)),
               defSource, defType)

\* the three media steps in sequence, handing def_source and def_type on
MediaAfterType(u, src, typ) == SizeStep(u, typ.d, typ.m, src.def, typ.def)
MediaAfterSource(u, src) ==
    Then(TypeStep(u, src.d, src.m), LAMBDA typ : MediaAfterType(u, src, typ))
MediaStep(u, d, m) ==
    Then(SourceStep(u, d, m), LAMBDA src : MediaAfterSource(u, src))

\* one media_ready item; an item whose source is empty ends the table
NoMedia == MediaCol("", "", "")

\* lines 1593-1596: the first slot from k on that is past the table, is
\* empty or holds the source pwg (slots counted from 0 as in the code)
RECURSIVE FindSlot(_, _, _)
FindSlot(mr, k, pwg) ==
    IF k < PAPPL_MAX_SOURCE /\ mr[k + 1].source # "" /\ mr[k + 1].source # pwg
    THEN FindSlot(mr, k + 1, pwg)
    ELSE k

\* lines 1597-1605: the item found in the undo region, and how far the
\* items from slot j on are moved up
InsertFound(mr, k, pwg) == k < PAPPL_MAX_SOURCE /\ mr[k + 1].source = pwg

InsertUpTo(mr, k, pwg) ==
    IF InsertFound(mr, k, pwg) THEN k
    ELSE IF k = PAPPL_MAX_SOURCE THEN k - 1
    ELSE IF k < PAPPL_MAX_SOURCE - 1 THEN k + 1
    ELSE k

\* lines 1607-1622: memmove of (k - j) items one slot up, then the item of
\* the undo region, or a new one made of media_default, goes into slot j
InsertAt(mr, j, k, item) ==
    [p \in 1..PAPPL_MAX_SOURCE |->
        IF p = j + 1 THEN item
        ELSE IF p > j + 1 /\ p <= k + 1 THEN mr[p - 1]
        ELSE mr[p]]

InsertItemAlwaysNew(mr, k, pwg, mediaDefault) ==
    [mediaDefault EXCEPT !.source = pwg]

InsertItem(mr, k, pwg, mediaDefault) ==
    IF InsertFound(mr, k, pwg) THEN mr[k + 1]
    ELSE [mediaDefault EXCEPT !.source = pwg]

InsertSource(mr, j, k, pwg, mediaDefault) ==
    InsertAt(mr, j, InsertUpTo(mr, k, pwg), InsertItem(mr, k, pwg, mediaDefault))

\* lines 1640-1642: the first slot after j that is past the table or empty
RECURSIVE FindEnd(_, _)
FindEnd(mr, k) ==
    IF k < PAPPL_MAX_SOURCE /\ mr[k + 1].source # ""
    THEN FindEnd(mr, k + 1)
    ELSE k

\* lines 1637-1648: the item of slot j moves behind the last used item
EvictAt(mr, j, k) ==
    [p \in 1..PAPPL_MAX_SOURCE |->
        IF p = k THEN mr[j + 1]
        ELSE IF p >= j + 1 /\ p < k THEN mr[p + 1]
        ELSE mr[p]]

\* line 1583: strcasecmp of the cache source i with source[j].  Slots of
\* source[] from num_source on hold pointers that line 1406 has freed; what
\* such a read compares with is not defined, ub.src[i] is its outcome
SourceMatches(d, i, j, ub) ==
    IF j < Len(d.source) THEN CacheSources[i].pwg = d.source[j + 1] ELSE ub.src[i]

\* lines 1580-1650: one cache source
ReadyStep(d, mr, i, j, match) ==
    IF match
    THEN IF mr[j + 1].source # CacheSources[i].pwg
         THEN InsertSource(mr, j, FindSlot(mr, j, CacheSources[i].pwg),
                           CacheSources[i].pwg, d.media_default)
         ELSE mr
    ELSE IF mr[j + 1].source = CacheSources[i].pwg
         THEN EvictAt(mr, j, FindEnd(mr, j + 1))
         ELSE mr

\* lines 1577-1651
RECURSIVE ReadyLoop(_, _, _, _, _)
ReadyLoop(d, mr, i, j, ub) ==
    IF i > Len(CacheSources) \/ j >= PAPPL_MAX_SOURCE THEN mr
    ELSE Then(ReadyStep(d, mr, i, j, SourceMatches(d, i, j, ub)),
              LAMBDA t : ReadyLoop(d, t, i + 1,
                                   IF SourceMatches(d, i, j, ub) THEN j + 1 ELSE j,
                                   ub))

\* lines 1656-1666: Init mode makes one item per source and ends the table
ReadyInit(d) ==
    [p \in 1..PAPPL_MAX_SOURCE |->
        IF p <= Len(d.source) THEN [d.media_default EXCEPT !.source = d.source[p]]
        ELSE IF p = Len(d.source) + 1 THEN NoMedia
        ELSE d.media_ready[p]]

\* lines 1575-1667
ReadyMediaStep(u, d, m, ub) ==
    DM([d EXCEPT !.media_ready = IF u THEN ReadyLoop(d, d.media_ready, 1, 0, ub)
                                 ELSE ReadyInit(d)], m)

\* lines 1696-1701: the bin just added becomes the default when its choice
\* is marked (Init) or when it is the old default bin (Update)
BinIsDefault(u, m, defBin, map) ==
    \/ ~u /\ m["OutputBin"] = map.ppd
    \/ u /\ map.pwg = defBin

BinAccept(u, m, defBin, acc, map) ==
    IF BinIsDefault(u, m, defBin, map)
    THEN [list |-> Append(acc.list, map.pwg), def |-> Len(acc.list),
          m |-> Mark(acc.m, "OutputBin", map.ppd)]
    ELSE [list |-> Append(acc.list, map.pwg), def |-> acc.def, m |-> acc.m]

\* lines 1690-1703
RECURSIVE BinLoop(_, _, _, _, _)
BinLoop(u, m, defBin, i, acc) ==
    IF i > Len(CacheBins) \/ Len(acc.list) >= PAPPL_MAX_BIN THEN acc
    ELSE BinLoop(u, m, defBin, i + 1,
                 IF Offered(u, acc.m, "OutputBin", CacheBins[i].ppd)
                 THEN BinAccept(u, m, defBin, acc, CacheBins[i])
                 ELSE acc)

BinFinish(d, acc) ==
    DM([d EXCEPT !.bin = acc.list, !.bin_default = acc.def], acc.m)

\* lines 1678-1712; line 1685 reads bin[bin_default] of the old list
BinStep(u, d, m, ub) ==
    BinFinish(d, BinLoop(u, m,
                         IF ~u THEN ""
                         ELSE IF d.bin_default < Len(d.bin)
                         THEN d.bin[d.bin_default + 1]
                         ELSE ub.bin,
                         1, [list |-> <<>>, def |-> 0, m |-> m]))

\* the IPP attributes "<name>-supported" and "<name>-default" of one vendor
\* option; NoAttr when the driver attributes hold neither
NoAttr == [kind |-> "none", supported |-> <<>>, default |-> ""]

BoolAttr(defaultChoice) ==
    [kind |-> "boolean", supported |-> <<"true">>,
     default |-> IF defaultChoice # 0 THEN "true" ELSE "false"]

KeywordAttr(list, defaultChoice) ==
    [kind |-> "keyword", supported |-> list, default |-> list[defaultChoice + 1]]

\* lines 1956-1961
AddVendor(d, ippOpt, keyword) ==
    [d EXCEPT !.vendor = Append(@, ippOpt),
              !.vendor_ppd_options = Append(@, keyword)]

\* lines 1826-1830
IsBooleanPair(choices) ==
    /\ Len(choices) = 2
    /\ \/ TextIs(choices[1].text, "true") /\ TextIs(choices[2].text, "false")
       \/ TextIs(choices[1].text, "false") /\ TextIs(choices[2].text, "true")

\* lines 1842-1859: default_choice of a Boolean option in Update mode
BoolKept(d, ippOpt) ==
    IF d.attrs[ippOpt].kind # "none" /\ d.attrs[ippOpt].default = "true"
    THEN 1 ELSE 0

\* a default_choice that gives up the option when both choices conflict
BoolUpdateDefaultBoth(d, m, ippOpt, opt, choices) ==
    IF InstallableConflict(m, opt, choices[1].choice)
       /\ InstallableConflict(m, opt, choices[2].choice)
    THEN -1
    ELSE BoolKept(d, ippOpt)

BoolUpdateDefault(d, m, ippOpt, opt, choices) ==
    IF InstallableConflict(m, opt, choices[1].choice)
       \/ InstallableConflict(m, opt, choices[2].choice)
    THEN -1
    ELSE BoolKept(d, ippOpt)

\* lines 1850-1861: the choice Update mode marks for a Boolean option
BoolUpdateMark(m, opt, choices) ==
    IF InstallableConflict(m, opt, choices[2].choice)
    THEN IF ~InstallableConflict(m, opt, choices[1].choice)
         THEN Mark(m, opt, choices[1].choice) ELSE m
    ELSE IF InstallableConflict(m, opt, choices[1].choice)
         THEN Mark(m, opt, choices[2].choice) ELSE m

\* lines 1871-1875
BoolInitDefault(marked, choices) ==
    IF \E k \in 1..2 : choices[k].choice = marked /\ TextIs(choices[k].text, "true")
    THEN 1 ELSE 0

\* lines 1836-1882
BoolDefault(u, d, m, ippOpt, opt, choices) ==
    IF u THEN BoolUpdateDefault(d, m, ippOpt, opt, choices)
    ELSE BoolInitDefault(m[opt], choices)

BoolOption(u, d, m, ippOpt, opt, dc) ==
    IF dc < 0
    THEN DM([d EXCEPT !.attrs[ippOpt] = NoAttr],
            BoolUpdateMark(m, opt, PpdChoices[opt]))
    ELSE DM(AddVendor([d EXCEPT !.attrs[ippOpt] = BoolAttr(dc)], ippOpt, opt),
            IF u THEN BoolUpdateMark(m, opt, PpdChoices[opt]) ELSE m)

\* lines 1888-1901: the old default of an enumerated option, "" if none
KeptDefault(u, d, ippOpt) ==
    IF u /\ d.attrs[ippOpt].kind # "none" THEN d.attrs[ippOpt].default ELSE ""

\* lines 1914-1915
EnumIsDefault(u, m, opt, buf, ch) ==
    \/ ~u /\ m[opt] = ch.choice
    \/ u /\ buf # "" /\ Unppdize(ch.text) = buf

EnumAccept(u, m, opt, buf, acc, ch, k) ==
    [ list  |-> Append(acc.list, Unppdize(ch.text)),
      first |-> IF acc.first < 0 THEN k ELSE acc.first,
      def   |-> IF EnumIsDefault(u, m, opt, buf, ch) THEN Len(acc.list) ELSE acc.def,
      m     |-> IF EnumIsDefault(u, m, opt, buf, ch)
                THEN Mark(acc.m, opt, ch.choice) ELSE acc.m ]

\* lines 1905-1926 (k counts the choices from 0 as in the code)
RECURSIVE EnumLoop(_, _, _, _, _, _)
EnumLoop(u, m, opt, buf, k, acc) ==
    IF k >= Len(PpdChoices[opt]) THEN acc
    ELSE EnumLoop(u, m, opt, buf, k + 1,
                  IF Offered(u, acc.m, opt, PpdChoices[opt][k + 1].choice)
                  THEN EnumAccept(u, m, opt, buf, acc, PpdChoices[opt][k + 1], k)
                  ELSE acc)

\* lines 1927-1932
EnumDefault(acc) ==
    IF Len(acc.list) > 0 /\ acc.def < 0 THEN 0 ELSE acc.def

EnumMark(opt, acc) ==
    IF Len(acc.list) > 0 /\ acc.def < 0
    THEN Mark(acc.m, opt, PpdChoices[opt][acc.first + 1].choice)
    ELSE acc.m

\* an option is worth showing with one choice left
SurfacedWithOne(l) == l >= 1

\* lines 1933 and 1944: "if (l >= 2)"
Surfaced(l) == l >= 2

\* lines 1933-1949
EnumFinish(d, ippOpt, opt, acc) ==
    IF Surfaced(Len(acc.list))
    THEN DM(AddVendor([d EXCEPT !.attrs[ippOpt] =
                           KeywordAttr(acc.list, EnumDefault(acc))], ippOpt, opt),
            EnumMark(opt, acc))
    ELSE DM([d EXCEPT !.attrs[ippOpt] = NoAttr], EnumMark(opt, acc))

\* lines 1885-1950
EnumOption(u, d, m, ippOpt, opt) ==
    EnumFinish(d, ippOpt, opt,
               EnumLoop(u, m, opt, KeptDefault(u, d, ippOpt), 0,
                        [list |-> <<>>, first |-> -1, def |-> -1, m |-> m]))

\* lines 1792-1800
IsHandled(opt) ==
    \/ \E k \in 1..Len(pappl_handled_options) : pappl_handled_options[k] = opt
    \/ opt = SourceOption
    \/ opt = SidesOption

\* lines 1757-1789: the flags of the extension
NoteInstallable(d, opt) ==
    [d EXCEPT !.installable_options = TRUE,
              !.installable_pollable = @ \/ opt \in PpdQueries]

NotePollable(d, opt) ==
    [d EXCEPT !.defaults_pollable = @ \/ opt \in PpdQueries]

\* lines 1813-1953: an option that gets a vendor attribute
VendorAttribute(u, d, m, opt) ==
    IF PpdUi(opt) \notin {"PICKONE", "BOOLEAN"} THEN DM(d, m)
    ELSE IF IsBooleanPair(PpdChoices[opt])
    THEN BoolOption(u, d, m, Unppdize(OptionText(opt)), opt,
                    BoolDefault(u, d, m, Unppdize(OptionText(opt)), opt,
                                PpdChoices[opt]))
    ELSE EnumOption(u, d, m, Unppdize(OptionText(opt)), opt)

\* lines 1752-1962: one option of one group
VendorOption(u, d, m, group, opt) ==
    IF Len(PpdChoices[opt]) < 2 THEN DM(d, m)
    ELSE IF IsInstallableGroup(group) THEN DM(NoteInstallable(d, opt), m)
    ELSE IF IsHandled(opt) THEN DM(NotePollable(d, opt), m)
    ELSE IF Len(d.vendor) >= PAPPL_MAX_VENDOR - 1 THEN DM(NotePollable(d, opt), m)
    ELSE VendorAttribute(u, NotePollable(d, opt), m, opt)

\* the options of all groups in the order of the loops of lines 1744-1750
GroupOptions(g) ==
    [i \in 1..Len(PpdGroups[g].options) |->
        [group |-> PpdGroups[g].name, keyword |-> PpdGroups[g].options[i]]]

AllOptions == GroupOptions(1) \o GroupOptions(2) \o GroupOptions(3)

RECURSIVE VendorLoop(_, _, _)
VendorLoop(u, s, i) ==
    IF i > Len(AllOptions) THEN s
    ELSE Then(VendorOption(u, s.d, s.m, AllOptions[i].group,
                           AllOptions[i].keyword),
              LAMBDA t : VendorLoop(u, t, i + 1))

\* lines 1965-1978: the placeholder that carries the accessory settings
Placeholder(u, s) ==
    IF s.d.installable_options
    THEN DM(AddVendor(IF u THEN s.d ELSE [s.d EXCEPT !.installable_default = <<>>],
                      "installable-options", ""), s.m)
    ELSE s

\* lines 1733-1978
VendorStep(u, d, m) ==
    Placeholder(u, VendorLoop(u, DM([d EXCEPT !.vendor = <<>>,
                                              !.vendor_ppd_options = <<>>], m), 1))

\* lines 1182-1189: the accessory settings saved in the attribute
\* "installable-options-default" are marked
RECURSIVE MarkOptions(_, _, _)
MarkOptions(m, options, i) ==
    IF i > Len(options) THEN m
    ELSE MarkOptions(MarkText(m, options[i].name, options[i].value), options, i + 1)

\* ps_driver_setup as a whole: Init mode (u = FALSE) starts from the empty
\* driver data, Update mode from the data of the printer
AfterBins(u, s) == VendorStep(u, s.d, s.m)
AfterReady(u, s, ub) == Then(BinStep(u, s.d, s.m, ub), LAMBDA t : AfterBins(u, t))
AfterMedia(u, s, ub) ==
    Then(ReadyMediaStep(u, s.d, s.m, ub), LAMBDA t : AfterReady(u, t, ub))
AfterResolution(u, s, ub) ==
    Then(MediaStep(u, s.d, s.m), LAMBDA t : AfterMedia(u, t, ub))
AfterFinishings(u, s, ub) ==
    Then(ResolutionStep(u, s.d, s.m), LAMBDA t : AfterResolution(u, t, ub))
AfterSides(u, s, ub) ==
    Then(FinishingsStep(u, s.d, s.m), LAMBDA t : AfterFinishings(u, t, ub))

DriverSetup(u, d, m, ub) ==
    Then(SidesStep(u, [d EXCEPT !.updated = u],
                   MarkOptions(m, d.installable_default, 1)),
         LAMBDA t : AfterSides(u, t, ub))

----------------------------------------------------------------------------
(* The printer's driver data and the handlers that re-project it.          *)

Range(f) == {f[x] : x \in DOMAIN f}

VendorNames == { Unppdize(OptionText(AllOptions[i].keyword)) : i \in 1..Len(AllOptions) }

\* the driver data PAPPL hands to ps_driver_setup in Init mode: zeroed;
\* jcl_end is extension->ppd->jcl_end, "" for a PPD that has none
EmptyDriver ==
    [ updated |-> FALSE, installable_options |-> FALSE,
      installable_pollable |-> FALSE, defaults_pollable |-> FALSE,
      sides_supported |-> {}, sides_default |-> "", finishings |-> {},
      resolution |-> <<>>, x_default |-> 0, y_default |-> 0,
      source |-> <<>>, type |-> <<>>, media |-> <<>>,
      media_default |-> NoMedia,
      media_ready |-> [p \in 1..PAPPL_MAX_SOURCE |-> NoMedia],
      bin |-> <<>>, bin_default |-> 0,
      vendor |-> <<>>, vendor_ppd_options |-> <<>>,
      attrs |-> [n \in VendorNames |-> NoAttr],
      installable_default |-> <<>>,
      jcl_end |-> "" ]

\* the outcomes of the reads of freed source[] slots in one Update run: such
\* a read happens for the cache sources that follow the last source offered
NoUb == [src |-> [i \in 1..Len(CacheSources) |-> FALSE], bin |-> ""]

LastOffered(m) ==
    LET S == { i \in 1..Len(CacheSources) :
                 ~InstallableConflict(m, SourceOption, CacheSources[i].ppd) }
    IN  IF S = {} THEN Len(CacheSources)
        ELSE CHOOSE i \in S : \A k \in S : k <= i

\* line 1685 reads bin[bin_default]; with no bin left by the run before,
\* the slot holds a pointer that run has freed, and the text read is the
\* name of a bin or anything else ("")
StaleBins ==
    IF drv.bin_default < Len(drv.bin) THEN {""}
    ELSE {""} \cup { CacheBins[k].pwg : k \in 1..Len(CacheBins) }

UbOutcomes(m) ==
    { [src |-> f, bin |-> b] :
        f \in { g \in [1..Len(CacheSources) -> BOOLEAN] :
                  \A i \in 1..LastOffered(m) : ~g[i] },
        b \in StaleBins }

\* the printer as ps_driver_setup in Init mode leaves it (964-1981)
InitSetup == DriverSetup(FALSE, EmptyDriver, PpdDefaults, NoUb)

\* lines 4771-4790: only the attributes of the vendor options listed in
\* vendor[] survive papplPrinterSetDriverData
CopyVendorAttrs(d) ==
    [d EXCEPT !.attrs = [n \in VendorNames |->
                            IF n \in Range(d.vendor) THEN d.attrs[n] ELSE NoAttr]]

\* ps_status (4731-4808) on driver data d: re-projects when updated is unset
StatusSave(s) == DM(CopyVendorAttrs(s.d), s.m)

\* a status callback that re-projects whatever the flag says
StatusOfAlways(d, m, ub) == StatusSave(DriverSetup(TRUE, d, m, ub))

StatusOf(d, m, ub) ==
    IF ~d.updated THEN StatusSave(DriverSetup(TRUE, d, m, ub)) ELSE DM(d, m)

NoCycle == [phase |-> "none", src |-> "", ready |-> <<>>]

\* nothing is on its way from the device
NoLate == [opt |-> "", text |-> <<>>]

\* no poll session yet; late is the line the device has sent or will send in
\* answer to the query of late.opt and that no read has taken yet, origin
\* the option whose query the text recorded for an option answers
NoPoll ==
    [ state |-> "idle", installable |-> FALSE, pos |-> 1,
      defaults |-> [k \in {} |-> <<>>], status |-> 0, out |-> <<>>,
      faults |-> TRUE, ret |-> 0, count |-> 0, reads |-> 0, exhausted |-> {},
      opened |-> FALSE, late |-> NoLate, origin |-> [k \in {} |-> ""] ]

ProjInit ==
    /\ poll = NoPoll
    /\ jobReq = <<>>
    /\ jobOptions = [k \in {} |-> ""]
    /\ jobSteps = <<>>
    /\ jobResult = "none"
    /\ drv = InitSetup.d
    /\ ppdMarked = InitSetup.m
    /\ projAct = "init"
    /\ cycle = NoCycle

\* the status callback, called by PAPPL at any time
Status ==
    /\ pgState # "crashed"
    /\ ~drv.updated
    /\ \E ub \in UbOutcomes(MarkOptions(ppdMarked, drv.installable_default, 1)) :
         \E s \in {StatusOf(drv, ppdMarked, ub)} :
            /\ drv' = s.d
            /\ ppdMarked' = s.m
    /\ projAct' = "status"
    /\ cycle' = NoCycle
    /\ UNCHANGED <<encVars, pageVars, jobVars, poll>>

\* ps_status (4731-4808) whenever PAPPL calls it, the flag set or not
StatusCall ==
    /\ pgState # "crashed"
    /\ \E ub \in UbOutcomes(MarkOptions(ppdMarked, drv.installable_default, 1)) :
         \E s \in {StatusOf(drv, ppdMarked, ub)} :
            /\ drv' = s.d
            /\ ppdMarked' = s.m
    /\ projAct' = "status"
    /\ cycle' = NoCycle
    /\ UNCHANGED <<encVars, pageVars, jobVars, poll>>

\* lines 2956-2991: the choice marked for every installable option, taken
\* from the form, the "false" choice for a box left unchecked
FalseChoice(opt) ==
    IF TextIs(PpdChoices[opt][1].text, "false") THEN PpdChoices[opt][1].choice
    ELSE PpdChoices[opt][2].choice

FormValue(form, opt) ==
    IF opt \in DOMAIN form THEN form[opt] ELSE FalseChoice(opt)

InstallableList(form) ==
    [i \in 1..Len(PpdGroups[3].options) |->
        [name |-> PpdGroups[3].options[i],
         value |-> FormValue(form, PpdGroups[3].options[i])]]

\* the forms the web page can send: the checked boxes with the "true" choice
Forms == UNION { [S -> {"True"}] : S \in SUBSET InstallableOptions }

\* the sources the marking m offers, as PWG names in cache order
OfferedSources(m) ==
    SelectSeq([i \in 1..Len(CacheSources) |-> CacheSources[i]],
              LAMBDA c : ~InstallableConflict(m, SourceOption, c.ppd))

PwgNames(maps) == { maps[i].pwg : i \in 1..Len(maps) }

\* what a submitted form does to the set of sources offered
CycleAfter(m, m2, ready) ==
    IF /\ projAct \in {"status", "set-installable"}
       /\ \E o \in InstallableOptions :
             /\ \A o2 \in InstallableOptions \ {o} : m2[o2] = m[o2]
             /\ m2[o] # m[o]
       /\ PwgNames(OfferedSources(m2)) \subseteq PwgNames(OfferedSources(m))
       /\ Cardinality(PwgNames(OfferedSources(m)) \ PwgNames(OfferedSources(m2))) = 1
    THEN [phase |-> "removed",
          src |-> CHOOSE x \in PwgNames(OfferedSources(m)) \ PwgNames(OfferedSources(m2)) : TRUE,
          ready |-> ready]
    ELSE IF /\ cycle.phase = "removed"
            /\ \E o \in InstallableOptions :
                 /\ \A o2 \in InstallableOptions \ {o} : m2[o2] = m[o2]
                 /\ m2[o] # m[o]
            /\ PwgNames(OfferedSources(m2)) = PwgNames(OfferedSources(m)) \cup {cycle.src}
            /\ cycle.src \notin PwgNames(OfferedSources(m))
    THEN [cycle EXCEPT !.phase = "restored"]
    ELSE NoCycle

\* the "set-installable" action of ps_printer_web_device_config (2924-3008):
\* marks the form, saves it as attribute, unsets updated and calls ps_status
SetInstallableForm(form) ==
    /\ pgState # "crashed"
    /\ \E m2 \in {MarkOptions(ppdMarked, InstallableList(form), 1)} :
        /\ \E ub \in UbOutcomes(m2) :
            \E s \in {StatusOf([drv EXCEPT !.installable_default = InstallableList(form),
                                           !.updated = FALSE], m2, ub)} :
                /\ drv' = s.d
                /\ ppdMarked' = s.m
        /\ cycle' = CycleAfter(ppdMarked, m2, drv.media_ready)
    /\ projAct' = "set-installable"
    /\ UNCHANGED <<encVars, pageVars, jobVars, poll>>

\* the forms that concern the input trays only
TrayForms ==
    { f \in Forms : \A o \in {"InstDuplexer", "InstFinisher"} : o \in DOMAIN f }

SetTrays == \E form \in TrayForms : SetInstallableForm(form)

\* lines 1565-1570: the user configures in the web interface what is loaded
\* in one of the sources shown, out of the sizes and types shown
Loaded(d) ==
    { p \in 1..PAPPL_MAX_SOURCE :
        /\ d.media_ready[p].source # ""
        /\ [d.media_ready[p] EXCEPT !.source = ""]
              # [InitSetup.d.media_default EXCEPT !.source = ""] }

SetReadyMedia ==
    /\ pgState # "crashed"
    /\ drv.updated
    /\ \E p \in 1..Len(drv.source) :
         \E size \in Range(drv.media) :
            \E type \in Range(drv.type) :
               /\ drv' = [drv EXCEPT !.media_ready[p].size_name = size,
                                     !.media_ready[p].type = type]
               /\ Cardinality(Loaded(drv')) <= MaxLoaded
    /\ projAct' = "media"
    /\ cycle' = NoCycle
    /\ UNCHANGED <<ppdMarked, encVars, pageVars, jobVars, poll>>

----------------------------------------------------------------------------
(* ps_create_job_data: the resolution of a job's options into the PPD      *)
(* option set.  r is the record of the pass: opts is job_data->options,    *)
(* cs the local variable choicestr ("" for NULL), steps the option set as  *)
(* every step left it, crashed whether the process died in the pass.       *)

Opt(n, v) == [name |-> n, value |-> v]

\* the presets of the printer model: pc->presets[pcm][pq] (pcm 0 mono,
\* 1 colour; pq 0 draft, 1 normal, 2 high), indexed here from 1
ModelPresets ==
    << << <<Opt("Resolution", "300dpi"), Opt("TonerSave", "On")>>,
          <<Opt("ColorModel", "Gray")>>,
          <<Opt("Resolution", "1200x600dpi")>> >>,
       << <<Opt("Resolution", "300dpi"), Opt("Duplex", "DuplexNoTumble")>>,
          <<>>,
          <<Opt("Resolution", "1200x600dpi"), Opt("MediaType", "Glossy")>> >> >>

\* what the PPD of the printer model says of colour
ModelPpd ==
    [color_device |-> TRUE, color_model |-> PpdChoices["ColorModel"],
     presets |-> ModelPresets, constraints |-> {}]

\* a PPD whose output bins all belong to the finisher
FinisherBinsPpd ==
    [ModelPpd EXCEPT !.constraints = {Con("InstFinisher", "False", "OutputBin", "Upper")}]

\* ppd->color_device
ColorDevice == ppdFile.color_device

\* pc->presets
CachePresets == ppdFile.presets

\* option->choices of an option of the PPD
ChoicesOf(opt) == IF opt = "ColorModel" THEN ppdFile.color_model ELSE PpdChoices[opt]

\* the value of the PPD attribute "DefaultResolution"
DefaultResolution == "600dpi"

INT_MAX == 2147483647
IPP_ORIENT_PORTRAIT == 3
IPP_ORIENT_NONE == 7

\* cupsAddOption: the value of an existing keyword is replaced; a NULL
\* value adds nothing
AddOption(opts, name, value) ==
    IF value = "" THEN opts ELSE (name :> value) @@ opts

\* cupsGetOption(...) != NULL
HasOption(opts, name) == name \in DOMAIN opts

NoOptions == [k \in {} |-> ""]

StartPass == [opts |-> NoOptions, cs |-> "", steps |-> <<>>, crashed |-> FALSE]

\* the end of one step: the option set the step leaves is recorded
Step(r, name, opts) ==
    [r EXCEPT !.opts = opts,
              !.steps = Append(@, [step |-> name, opts |-> opts])]

RECURSIVE AddOptions(_, _, _)
AddOptions(opts, list, i) ==
    IF i > Len(list) THEN opts
    ELSE AddOptions(AddOption(opts, list[i].name, list[i].value), list, i + 1)

\* lines 547-558
FirstPage(job) == IF job.first_page = 0 THEN 1 ELSE job.first_page
LastPage(job) == IF job.last_page = 0 THEN INT_MAX ELSE job.last_page

PageRangesStep(r, job) ==
    Step(r, "page-ranges",
         IF FirstPage(job) > 1 \/ LastPage(job) < INT_MAX
         THEN AddOption(r.opts, "page-ranges",
                        ToString(FirstPage(job)) \o "-" \o ToString(LastPage(job)))
         ELSE r.opts)

\* ppdCacheGetFinishingOptions(pc, NULL, value, ...): the options of the
\* entry of pc->finishings for the value, if there is one
FinishingOptions(opts, value) ==
    IF \E k \in 1..Len(CacheFinishings) : CacheFinishings[k].value = value
    THEN AddOptions(opts,
                    CacheFinishings[CHOOSE k \in 1..Len(CacheFinishings) :
                                       CacheFinishings[k].value = value].options, 1)
    ELSE opts

FinishingIf(opts, job, value) ==
    IF value \in job.finishings THEN FinishingOptions(opts, value) ELSE opts

\* lines 562-576
JobFinishingsStep(r, job) ==
    Step(r, "finishings",
         FinishingIf(FinishingIf(FinishingIf(r.opts, job, "punch"),
                                 job, "staple"), job, "trim"))

\* ppdCacheGetPageSize, ppdCacheGetInputSlot, ppdCacheGetMediaType: the PPD
\* choice of a PWG name, "" (NULL) if the cache has none
CacheLookup(maps, pwg) ==
    IF \E k \in 1..Len(maps) : maps[k].pwg = pwg
    THEN maps[CHOOSE k \in 1..Len(maps) : maps[k].pwg = pwg].ppd
    ELSE ""

\* lines 601-604
PageSizeStep(r, job) ==
    Step([r EXCEPT !.cs = CacheLookup(CacheSizes, job.media.size_name)],
         "PageSize",
         AddOption(r.opts, "PageSize", CacheLookup(CacheSizes, job.media.size_name)))

\* lines 610-615
InputSlotStep(r, job) ==
    Step([r EXCEPT !.cs = CacheLookup(CacheSources, job.media.source)],
         "InputSlot",
         AddOption(r.opts, SourceOption, CacheLookup(CacheSources, job.media.source)))

\* lines 619-623
MediaTypeStep(r, job) ==
    Step([r EXCEPT !.cs = CacheLookup(CacheTypes, job.media.type)],
         "MediaType",
         AddOption(r.opts, "MediaType", CacheLookup(CacheTypes, job.media.type)))

\* lines 628-635
OrientationStep(r, job) ==
    Step(r, "orientation-requested",
         IF job.orientation_requested >= IPP_ORIENT_PORTRAIT
            /\ job.orientation_requested < IPP_ORIENT_NONE
         THEN AddOption(r.opts, "orientation-requested",
                        ToString(job.orientation_requested))
         ELSE r.opts)

\* lines 642-644: choicestr keeps the value the media type step left in it
\* when no bin matches
BinChoice(cs, val) ==
    IF CacheLookup(CacheBins, val) # "" THEN CacheLookup(CacheBins, val) ELSE cs

\* lines 638-649
OutputBinStep(r, job) ==
    IF Len(CacheBins) > 0
    THEN Step([r EXCEPT !.cs = BinChoice(r.cs, job.output_bin)], "OutputBin",
              AddOption(r.opts, "OutputBin", BinChoice(r.cs, job.output_bin)))
    ELSE Step(r, "OutputBin", r.opts)

\* lines 654-665: the preset bucket of a job
Pcm(job) ==
    IF ColorDevice /\ job.print_color_mode \in {"auto", "color"} THEN 1 ELSE 0

Pq(job) ==
    IF job.print_quality = "draft" THEN 0
    ELSE IF job.print_quality = "high" THEN 2
    ELSE 1

Presets(job) == CachePresets[Pcm(job) + 1][Pq(job) + 1]

\* lines 666-671
PresetsStep(r, job) ==
    Step(r, "presets", AddOptions(r.opts, Presets(job), 1))

\* ps_have_force_gray (2117-2186): the first of these settings the PPD has
ForceGrayProbes ==
    << Opt("ColorModel", "Gray"), Opt("ColorModel", "Grayscale"),
       Opt("HPColorMode", "grayscale"), Opt("BRMonoColor", "Mono"),
       Opt("CNIJSGrayScale", "1"), Opt("HPColorAsGray", "True") >>

PpdHasChoice(opt, choice) ==
    /\ opt \in PpdOptions
    /\ \E k \in 1..Len(ChoicesOf(opt)) : ChoicesOf(opt)[k].choice = choice

HaveForceGray ==
    IF \E k \in 1..Len(ForceGrayProbes) :
          PpdHasChoice(ForceGrayProbes[k].name, ForceGrayProbes[k].value)
    THEN ForceGrayProbes[CHOOSE k \in 1..Len(ForceGrayProbes) :
            /\ PpdHasChoice(ForceGrayProbes[k].name, ForceGrayProbes[k].value)
            /\ \A k2 \in 1..(k - 1) :
                  ~PpdHasChoice(ForceGrayProbes[k2].name, ForceGrayProbes[k2].value)]
    ELSE Opt("", "")

\* lines 677-682
ForceGrayStep(r, job) ==
    IF Pcm(job) # 0 THEN Step(r, "force-gray", r.opts)
    ELSE Step([r EXCEPT !.cs = HaveForceGray.value], "force-gray",
              IF HaveForceGray.name # "" /\ ~HasOption(r.opts, HaveForceGray.name)
              THEN AddOption(r.opts, HaveForceGray.name, HaveForceGray.value)
              ELSE r.opts)

\* a pass that leaves ColorModel to the steps before
GrayModelNever(opts) == opts

\* lines 685-689
GrayModel(opts) ==
    IF ~HasOption(opts, "ColorModel")
    THEN AddOption(opts, "ColorModel", "Gray")
    ELSE opts

\* lines 675-690
GrayModelStep(r, job) ==
    Step(r, "ColorModel", IF Pcm(job) = 0 THEN GrayModel(r.opts) ELSE r.opts)

\* lines 694-716: the scaling flags are looked at in this order
ScalingOrder == <<"auto", "auto-fit", "fill", "fit", "none">>

RECURSIVE ScalingLoop(_, _, _)
ScalingLoop(opts, job, i) ==
    IF i > Len(ScalingOrder) THEN opts
    ELSE ScalingLoop(IF ScalingOrder[i] \in job.print_scaling
                     THEN AddOption(opts, "print-scaling", ScalingOrder[i])
                     ELSE opts, job, i + 1)

ScalingStep(r, job) == Step(r, "print-scaling", ScalingLoop(r.opts, job, 1))

\* lines 732-739: does the choice stand for the resolution the job asks for
ResMatches(job, choice) ==
    /\ ParseResolution(choice)[1] > 0
    /\ job.printer_resolution[1] = ParseResolution(choice)[1]
    /\ \/ job.printer_resolution[2] = ParseResolution(choice)[2]
       \/ /\ job.printer_resolution[2] = 0
          /\ ParseResolution(choice)[1] = ParseResolution(choice)[2]

\* lines 730-744: the first choice that matches, "" if none does
ResRequested(job) ==
    IF \E k \in 1..Len(PpdChoices["Resolution"]) :
          ResMatches(job, PpdChoices["Resolution"][k].choice)
    THEN PpdChoices["Resolution"][
            CHOOSE k \in 1..Len(PpdChoices["Resolution"]) :
               /\ ResMatches(job, PpdChoices["Resolution"][k].choice)
               /\ \A k2 \in 1..(k - 1) :
                     ~ResMatches(job, PpdChoices["Resolution"][k2].choice)].choice
    ELSE ""

\* lines 748-756
ResFormatted(job) ==
    IF job.printer_resolution[2] # 0
       /\ job.printer_resolution[1] # job.printer_resolution[2]
    THEN ToString(job.printer_resolution[1]) \o "x"
            \o ToString(job.printer_resolution[2]) \o "dpi"
    ELSE ToString(job.printer_resolution[1]) \o "dpi"

\* lines 724-765
ResValue(job) ==
    IF /\ job.printer_resolution[1] # 0
       /\ job.resolution_attr
       /\ "Resolution" \in PpdOptions
       /\ Len(PpdChoices["Resolution"]) > 0
    THEN ResRequested(job)
    ELSE IF job.printer_resolution[1] # 0 THEN ResFormatted(job)
    ELSE DefaultResolution

\* a resolution step that does not look at what the earlier steps left
ResolutionUnsetAlways(opts) == TRUE

\* line 721: only a pass that holds no Resolution yet gets one here
ResolutionUnset(opts) == ~HasOption(opts, "Resolution")

\* lines 721-766
JobResolutionStep(r, job) ==
    Step(r, "Resolution",
         IF ResolutionUnset(r.opts)
         THEN AddOption(r.opts, "Resolution", ResValue(job))
         ELSE r.opts)

\* lines 770-790
DuplexChoice(job) ==
    IF job.sides = "" \/ SidesOption = "" THEN ""
    ELSE IF job.sides = "one-sided" /\ Sides1Sided # "" THEN Sides1Sided
    ELSE IF job.sides = "two-sided-long-edge" /\ Sides2SidedLong # ""
    THEN Sides2SidedLong
    ELSE IF job.sides = "two-sided-short-edge" /\ Sides2SidedShort # ""
    THEN Sides2SidedShort
    ELSE ""

DuplexStep(r, job) ==
    Step(r, "Duplex", AddOption(r.opts, SidesOption, DuplexChoice(job)))

\* lines 797-799: the placeholder of the accessory settings is left out
VendorCount(d) ==
    IF d.installable_options THEN Len(d.vendor) - 1 ELSE Len(d.vendor)

\* lines 804-808: the job's attribute or else the "-default" attribute; a
\* job attribute has the syntax of the attribute the driver registered
VendorHasAttr(job, d, name) ==
    \/ name \in DOMAIN job.vendor
    \/ name \in DOMAIN d.attrs /\ d.attrs[name].kind # "none"

VendorIsBoolean(d, name) ==
    name \in DOMAIN d.attrs /\ d.attrs[name].kind = "boolean"

VendorValue(job, d, name) ==
    IF name \in DOMAIN job.vendor THEN job.vendor[name] ELSE d.attrs[name].default

\* line 834-835: the number of choices the loop looks at
VendorChoiceCount(d, name) ==
    IF d.attrs[name].kind = "boolean" THEN 2 ELSE Len(d.attrs[name].supported)

\* lines 833-844: the loop indexes the choices of the PPD option
VendorChoice(opt, count, ptr) ==
    IF \E j \in 1..count : Unppdize(PpdChoices[opt][j].text) = ptr
    THEN PpdChoices[opt][CHOOSE j \in 1..count :
            /\ Unppdize(PpdChoices[opt][j].text) = ptr
            /\ \A j2 \in 1..(j - 1) : Unppdize(PpdChoices[opt][j2].text) # ptr].choice
    ELSE ""

\* lines 845-850
VendorAdd(r, m, opt, cs) ==
    Step([r EXCEPT !.cs = cs], "vendor",
         IF cs # "" /\ ~InstallableConflict(m, opt, cs)
         THEN AddOption(r.opts, opt, cs)
         ELSE r.opts)

\* lines 802-852 for vendor[i]: ippGetString gives NULL for an attribute of
\* Boolean syntax and strdup(NULL) ends the process (line 813)
VendorOne(r, job, d, m, name, opt) ==
    IF ~VendorHasAttr(job, d, name) THEN Step([r EXCEPT !.cs = ""], "vendor", r.opts)
    ELSE IF VendorIsBoolean(d, name) THEN [r EXCEPT !.crashed = TRUE]
    ELSE IF name \notin DOMAIN d.attrs \/ d.attrs[name].kind = "none"
    THEN Step([r EXCEPT !.cs = ""], "vendor", r.opts)
    ELSE IF opt \notin PpdOptions THEN Step([r EXCEPT !.cs = ""], "vendor", r.opts)
    ELSE VendorAdd(r, m, opt,
                   VendorChoice(opt, VendorChoiceCount(d, name),
                                VendorValue(job, d, name)))

\* lines 796-853
RECURSIVE JobVendorLoop(_, _, _, _, _)
JobVendorLoop(r, job, d, m, i) ==
    IF r.crashed \/ i > VendorCount(d) THEN r
    ELSE Then(VendorOne(r, job, d, m, d.vendor[i], d.vendor_ppd_options[i]),
              LAMBDA t : JobVendorLoop(t, job, d, m, i + 1))

\* strstr(ptr, "uncollate") and strstr(ptr, "collate") on the values of
\* "multiple-document-handling"
CollateChoice(cs, value) ==
    IF value = "separate-documents-uncollated-copies" THEN "False"
    ELSE IF value = "separate-documents-collated-copies" THEN "True"
    ELSE cs

\* lines 856-869
CollateStep(r, job) ==
    IF r.crashed THEN r
    ELSE IF job.multiple_document_handling = "" THEN Step(r, "Collate", r.opts)
    ELSE Step([r EXCEPT !.cs = CollateChoice(r.cs, job.multiple_document_handling)],
              "Collate",
              AddOption(r.opts, "Collate",
                        CollateChoice(r.cs, job.multiple_document_handling)))

\* ppdMarkOptions (line 872): every keyword of the set that is an option of
\* the PPD with the value among its choices gets that choice marked
JobMark(m, opts) ==
    [o \in DOMAIN m |->
        IF o \in DOMAIN opts /\ PpdHasChoice(o, opts[o]) THEN opts[o] ELSE m[o]]

\* the steps of ps_create_job_data (490-882) in the order of the code
AfterDuplex(r, job, d, m) ==
    Then(JobVendorLoop(r, job, d, m, 1), LAMBDA t : CollateStep(t, job))
AfterJobResolution(r, job, d, m) ==
    Then(DuplexStep(r, job), LAMBDA t : AfterDuplex(t, job, d, m))
AfterScaling(r, job, d, m) ==
    Then(JobResolutionStep(r, job), LAMBDA t : AfterJobResolution(t, job, d, m))
AfterGrayModel(r, job, d, m) ==
    Then(ScalingStep(r, job), LAMBDA t : AfterScaling(t, job, d, m))
AfterForceGray(r, job, d, m) ==
    Then(GrayModelStep(r, job), LAMBDA t : AfterGrayModel(t, job, d, m))
AfterPresets(r, job, d, m) ==
    Then(ForceGrayStep(r, job), LAMBDA t : AfterForceGray(t, job, d, m))
AfterOutputBin(r, job, d, m) ==
    Then(PresetsStep(r, job), LAMBDA t : AfterPresets(t, job, d, m))
AfterOrientation(r, job, d, m) ==
    Then(OutputBinStep(r, job), LAMBDA t : AfterOutputBin(t, job, d, m))
AfterMediaType(r, job, d, m) ==
    Then(OrientationStep(r, job), LAMBDA t : AfterOrientation(t, job, d, m))
AfterInputSlot(r, job, d, m) ==
    Then(MediaTypeStep(r, job), LAMBDA t : AfterMediaType(t, job, d, m))
AfterPageSize(r, job, d, m) ==
    Then(InputSlotStep(r, job), LAMBDA t : AfterInputSlot(t, job, d, m))
AfterJobFinishings(r, job, d, m) ==
    Then(PageSizeStep(r, job), LAMBDA t : AfterPageSize(t, job, d, m))
AfterPageRanges(r, job, d, m) ==
    Then(JobFinishingsStep(r, job), LAMBDA t : AfterJobFinishings(t, job, d, m))

CreateJobData(job, d, m) ==
    Then(PageRangesStep(StartPass, job), LAMBDA t : AfterPageRanges(t, job, d, m))

----------------------------------------------------------------------------
(* The jobs PAPPL hands to the driver: job_options filled from the job's   *)
(* attributes and, where the job is silent, from the printer's defaults.   *)

NoJob == <<>>

DefaultJob(d) ==
    [ first_page |-> 0, last_page |-> 0, finishings |-> {},
      media |-> d.media_default,
      orientation_requested |-> IPP_ORIENT_NONE,
      output_bin |-> IF Len(d.bin) > 0 THEN d.bin[d.bin_default + 1] ELSE "",
      print_color_mode |-> "auto", print_quality |-> "normal",
      print_scaling |-> {"auto"},
      printer_resolution |-> <<d.x_default, d.y_default>>,
      resolution_attr |-> FALSE,
      sides |-> d.sides_default,
      vendor |-> NoOptions,
      multiple_document_handling |-> "" ]

\* the resolutions a job can ask for: none (the default is filled in) or one
\* of the resolutions the printer shows
ResRequests(d) ==
    { [xy |-> <<d.x_default, d.y_default>>, attr |-> FALSE] }
    \cup { [xy |-> d.resolution[k], attr |-> TRUE] : k \in 1..Len(d.resolution) }

\* the vendor attributes a job can carry: none, or one of the values shown
\* for one vendor option
VendorRequests(d) ==
    { NoOptions }
    \cup UNION { { (d.vendor[i] :> v) : v \in Range(d.attrs[d.vendor[i]].supported) } :
                   i \in 1..VendorCount(d) }

\* jobs that choose colour mode and quality and, with them, a resolution,
\* the sides or a vendor option
BucketJobs(d) ==
    { [DefaultJob(d) EXCEPT !.print_color_mode = c, !.print_quality = q] :
        c \in {"color", "monochrome"}, q \in {"draft", "normal", "high"} }

QualityJobs(d) ==
    { [j EXCEPT !.printer_resolution = res.xy, !.resolution_attr = res.attr] :
        j \in BucketJobs(d), res \in ResRequests(d) }
    \cup { [j EXCEPT !.sides = s] : j \in BucketJobs(d), s \in d.sides_supported }
    \cup { [j EXCEPT !.vendor = v] : j \in BucketJobs(d), v \in VendorRequests(d) }

\* an "output-bin" value of a job that is no bin of the PPD cache (the
\* attribute is the client's; line 642 compares it with every pwg_map->pwg)
UnmappedBin == "rear"

\* jobs that choose one other attribute each
OtherJobs(d) ==
    { [DefaultJob(d) EXCEPT !.first_page = 2],
      [DefaultJob(d) EXCEPT !.last_page = 3],
      [DefaultJob(d) EXCEPT !.orientation_requested = 4],
      [DefaultJob(d) EXCEPT !.print_scaling = {"fit"}] }
    \cup { [DefaultJob(d) EXCEPT !.multiple_document_handling = v] :
             v \in {"separate-documents-uncollated-copies",
                    "separate-documents-collated-copies", "single-document"} }
    \cup { [DefaultJob(d) EXCEPT !.finishings = {f}] : f \in d.finishings }
    \cup { [DefaultJob(d) EXCEPT !.media.size_name = z] : z \in Range(d.media) }
    \cup { [DefaultJob(d) EXCEPT !.media.source = z] : z \in Range(d.source) }
    \cup { [DefaultJob(d) EXCEPT !.media.type = z] : z \in Range(d.type) }
    \cup { [DefaultJob(d) EXCEPT !.output_bin = z] : z \in Range(d.bin) }
    \cup { [DefaultJob(d) EXCEPT !.output_bin = UnmappedBin] }

Jobs(d) == QualityJobs(d) \cup OtherJobs(d)

\* ps_rstartjob (3551-3645) for one job: the options are resolved and marked
\* in the PPD, the device stream is opened, the DSC header is written
StartJob(job, failures) ==
    /\ pgState = "idle"
    /\ \E r \in {CreateJobData(job, drv, ppdMarked)} :
         /\ jobOptions' = r.opts
         /\ jobSteps' = r.steps
         /\ jobResult' = IF r.crashed THEN "crashed" ELSE "returned"
         /\ pgState' = IF r.crashed THEN "crashed" ELSE "job"
         /\ ppdMarked' = IF r.crashed THEN ppdMarked ELSE JobMark(ppdMarked, r.opts)
         /\ devOut' = IF r.crashed THEN <<>> ELSE JobProlog
         /\ \E fails \in (IF r.crashed THEN {FALSE} ELSE failures) :
               devStatus' = Callback(NoDevStatus, fails)
    /\ jobReq' = job
    /\ projAct' = "job"
    /\ pagesDone' = 0
    /\ UNCHANGED <<lineCount, hdr, rxLines, fed, drv, cycle, poll, ppdFile>>
    /\ UNCHANGED encVars

\* a job that leaves everything to the printer's defaults
RStartJob == StartJob(DefaultJob(drv), {FALSE})

\* the same job on a device that may refuse a write
IoStartJob == StartJob(DefaultJob(drv), BOOLEAN)

\* a job out of the requests above, on a device that takes every write
RStartJobAny == \E job \in Jobs(drv) : StartJob(job, {FALSE})

\* ps_rendjob: trailer written, device stream closed, job data freed
EndJob(failures) ==
    /\ pgState \in {"job", "pageEnd"}
    /\ pgState' = "idle"
    /\ lineCount' = 0
    /\ hdr' = NoHeader
    /\ rxLines' = 0
    /\ fed' = <<>>
    /\ pagesDone' = 0
    /\ devOut' = devOut \o JobTrailer(pagesDone) \o <<EndOfJob(drv)>>
    /\ \E fails \in Failures(devStatus, failures) :
          devStatus' = Callback(devStatus, fails)
    /\ encOut' = <<>>
    /\ encIn' = <<>>
    /\ UNCHANGED <<encCol, encRemaining, encTodo, encDone, poll>>
    /\ jobReq' = NoJob
    /\ jobOptions' = NoOptions
    /\ jobSteps' = <<>>
    /\ jobResult' = "none"
    /\ UNCHANGED <<projVars, ppdFile>>

\* ps_rendjob on a device that takes every write
REndJob == EndJob({FALSE})

\* ps_rendjob on a device that may refuse a write
IoEndJob == EndJob(BOOLEAN)

----------------------------------------------------------------------------
(* ps_poll_device_option_defaults (2472-2844): the query scripts of the    *)
(* PPD are sent to the printer one by one and the answers are read back.   *)
(* Text that comes from the device is a sequence of tokens: words, and the *)
(* characters " ", "\t", "\r", "\n" and ":".                               *)

\* the retry ceiling of the read loop (line 2692)
PollRetries == 100

\* the string the tokens of a buffer spell
RECURSIVE Text(_)
Text(b) == IF b = <<>> THEN "" ELSE Head(b) \o Text(Tail(b))

\* isspace(c) || iscntrl(c)
IsSpace(t) == t \in {" ", "\t", "\r", "\n"}

\* lines 2730-2734
RECURSIVE TrimTail(_)
TrimTail(b) ==
    IF b = <<>> \/ ~IsSpace(b[Len(b)]) THEN b
    ELSE TrimTail(SubSeq(b, 1, Len(b) - 1))

\* lines 2736-2743
RECURSIVE TrimHead(_)
TrimHead(b) == IF b = <<>> \/ ~IsSpace(Head(b)) THEN b ELSE TrimHead(Tail(b))

\* lines 2736-2743 when nothing is left of the buffer: the NUL at buf[0]
\* counts as a control character, so the scan runs on into what the buffer
\* held before (the last line of the query script that was logged, lines
\* 2608-2668) and that text is moved to the front; n is the number of bytes
\* the blank answer had
StaleText(n) ==
    IF n = 1 THEN <<"store">> ELSE IF n = 2 THEN <<"tore">> ELSE <<"ore">>

Trimmed(b) ==
    IF TrimHead(TrimTail(b)) = <<>> THEN StaleText(Len(b))
    ELSE TrimHead(TrimTail(b))

\* strchr(buf, ':') != NULL
HasColon(b) == \E i \in 1..Len(b) : b[i] = ":"

\* the read loop of one option: kind is "reading" while it runs and its
\* outcome after it; script is what the device hands to the reads to come
\* (<<>> for a read without bytes, and nothing more arrives once the script
\* is used up: the reads that are left come back without bytes), k the loop
\* counter, buf the buffer, bytes the variable bytes, reads the number of
\* calls of papplDeviceRead
Reading(script, k, buf, bytes) ==
    [kind |-> "reading", script |-> script, k |-> k, buf |-> buf,
     bytes |-> bytes, reads |-> k]

Outcome(st, kind, buf, bytes, reads) ==
    [st EXCEPT !.kind = kind, !.buf = buf, !.bytes = bytes, !.reads = reads]

\* a loop that never gives up
ExhaustedNever(k) == FALSE

\* line 2692: the loop ends after PollRetries passes
Exhausted(k) == k >= PollRetries

\* lines 2752-2801: the line read is looked at
Classify(opt, st, t, bytes) ==
    IF t = <<>>
    THEN Reading(Tail(st.script), st.k + 1, <<>>, bytes)
    ELSE IF HasColon(t) THEN Outcome(st, "fault", t, bytes, st.k + 1)
    ELSE IF ~FindChoice(opt, Text(t))
    THEN IF Lower(Text(t)) = "unknown"
         THEN Outcome(st, "unknown", t, bytes, st.k + 1)
         ELSE Reading(Tail(st.script), st.k + 1, <<>>, bytes)
    ELSE Outcome(st, "recorded", t, bytes, st.k + 1)

\* lines 2717-2728: the bytes read are in the buffer b
Received(opt, st, b) ==
    IF b[Len(b)] \notin {"\r", "\n"}
    THEN Reading(Tail(st.script), st.k + 1, b, Len(Head(st.script)))
    ELSE Classify(opt, st, Trimmed(b), Len(b))

\* lines 2692-2802: one pass of the loop, and what is left to do after it
ReadPass(opt, st) ==
    IF st.kind # "reading" THEN st
    ELSE IF Exhausted(st.k) THEN Outcome(st, "timeout", st.buf, st.bytes, st.k)
    ELSE IF st.script = <<>>
    THEN Outcome(st, "timeout", st.buf, 0,
                 IF st.k > PollRetries THEN st.k ELSE PollRetries)
    ELSE IF Head(st.script) = <<>>
    THEN Reading(Tail(st.script), st.k + 1, st.buf, 0)
    ELSE Received(opt, st, st.buf \o Head(st.script))

\* n passes of the loop one after the other
RECURSIVE ReadPasses(_, _, _)
ReadPasses(opt, st, n) ==
    IF n = 0 \/ st.kind # "reading" THEN st
    ELSE IF n = 1 THEN ReadPass(opt, st)
    ELSE Then(ReadPasses(opt, st, n \div 2),
              LAMBDA mid : ReadPasses(opt, mid, n - (n \div 2)))

\* lines 2688-2802: the loop from its first pass to its end
ReadLoop(opt, script, k, buf, bytes) ==
    ReadPasses(opt, Reading(script, k, buf, bytes), PollRetries + 2)

\* lines 2562-2599: the options a session queries, in the order of the PPD
Eligible(o, installable) ==
    /\ IsInstallableGroup(o.group) = installable
    /\ Len(PpdChoices[o.keyword]) >= 2
    /\ o.keyword \in PpdQueries

PollList(installable) ==
    SelectSeq(AllOptions, LAMBDA o : Eligible(o, installable))

\* a return value that tells failure from success
PollReturnStatus(defaults, status) == status

\* line 2843: the number of settings polled

PollReturn(defaults, status) == Cardinality(DOMAIN defaults)

\* what the device can hand to one read after the query for opt: nothing, a
\* line with an answer, a line without, an interpreter's error message, a
\* blank line, an answer without its line end, two lines at once, an answer
\* in white space
Variant(opt) ==
    IF FindChoice(opt, "Custom") THEN "Custom.A5"
    ELSE Lower(PpdChoices[opt][1].choice)

Answers(opt) ==
    { PpdChoices[opt][1].choice, PpdChoices[opt][2].choice, Variant(opt) }

Chunks(opt) ==
    { <<>>, <<"Unknown", "\n">>, <<"junk", "\n">>,
      <<"junk", ":", "junk", "\n">>, <<"\n">>,
      <<PpdChoices[opt][1].choice>>,
      <<"junk", "\n", PpdChoices[opt][1].choice, "\n">>,
      <<" ", PpdChoices[opt][2].choice, "\r", "\n">> }
    \cup { <<a, "\n">> : a \in Answers(opt) }

\* the reads after which the loop goes on reading
Continuing(opt) ==
    { <<>>, <<"junk", "\n">>, <<"\n">>, <<PpdChoices[opt][1].choice>>,
      <<"junk", "\n", PpdChoices[opt][1].choice, "\n">> }

\* a device that goes on for ever with the same: an answer in fragments
\* that never end a line, or lines that are no answer
Endless == { <<"x">>, <<"junk", "\n">> }

Scripts(opt) ==
    { <<>> } \cup { <<c>> : c \in Chunks(opt) }
    \cup { <<c, e>> : c \in Continuing(opt), e \in Chunks(opt) \ {<<>>} }
    \cup { [i \in 1..(PollRetries + 1) |-> e] : e \in Endless }

\* the answer to a query is an interpreter's error message and nothing else
IsFault(script) ==
    script \in { <<<<"junk", ":", "junk", "\n">>>>,
                 <<<<>>, <<"junk", ":", "junk", "\n">>>> }

\* what the read loop of an option makes of every behaviour of the device:
\* the outcome, and whether the behaviour was an error message
Answered ==
    [ opt \in { o \in PpdQueries : Len(PpdChoices[o]) >= 2 } |->
        { [r |-> ReadLoop(opt, script, 0, <<>>, 0), fault |-> IsFault(script)] :
            script \in Scripts(opt) } ]

\* lines 2493-2552: the device is opened (it is not while a job holds it or
\* when it cannot be reached), the header and the error handler are written
PollStart(installable, reachable) ==
    /\ poll.state \in {"idle", "applied"}
    /\ pgState # "crashed"
    /\ poll.count < MaxPolls
    /\ poll' = IF pgState = "idle" /\ reachable
               THEN [NoPoll EXCEPT !.state = "polling",
                                   !.installable = installable,
                                   !.opened = TRUE,
                                   !.out = <<"header", "errorhandler">>,
                                   !.count = poll.count + 1]
               ELSE [NoPoll EXCEPT !.state = "done",
                                   !.installable = installable,
                                   !.count = poll.count + 1]
    /\ UNCHANGED <<encVars, pageVars, projVars, jobVars>>

\* lines 2799-2800 and 2768, 2783, 2808-2814 after the read loop
PollRecord(defaults, opt, r) ==
    IF r.kind = "recorded" THEN (opt :> r.buf) @@ defaults ELSE defaults

PollStatus(status, r) ==
    IF r.kind \in {"fault", "unknown"} \/ r.bytes <= 0 THEN 1 ELSE status

\* the query is written again before every read of the loop
QueryPerRead(opt, r) ==
    [i \in 1..(IF r.reads > 1 THEN r.reads ELSE 1) |-> "?" \o opt]

\* lines 2670-2683: what is written for one option, once, before the read
\* loop; r is what the loop comes to
QueryWrites(opt, r) == <<"?" \o opt>>

\* lines 2585-2815 for the next eligible option: its query is written, the
\* answer is read
PollOption ==
    /\ poll.state = "polling"
    /\ poll.pos <= Len(PollList(poll.installable))
    /\ \E opt \in {PollList(poll.installable)[poll.pos].keyword} :
        \E a \in Answered[opt] :
          \E r \in {a.r} :
            poll' = [poll EXCEPT !.pos = @ + 1,
                                 !.out = @ \o QueryWrites(opt, r),
                                 !.defaults = PollRecord(@, opt, r),
                                 !.status = PollStatus(@, r),
                                 !.faults = @ /\ a.fault,
                                 !.reads = IF r.reads > @ THEN r.reads ELSE @,
                                 !.exhausted = IF r.kind = "timeout"
                                               THEN @ \cup {opt} ELSE @]
    /\ UNCHANGED <<encVars, pageVars, projVars, jobVars>>

\* what a printer that may be slow does with the query for opt: it answers
\* with one of the choices of the option or not at all ("" for no answer),
\* and the answer comes while the read loop of opt runs or after it
Replies(opt) ==
    { [answer |-> c, intime |-> t] :
        c \in {""} \cup { PpdChoices[opt][k].choice : k \in 1..Len(PpdChoices[opt]) },
        t \in BOOLEAN }

\* the line that answers a query
Line(reply) == IF reply.answer = "" THEN <<>> ELSE <<<<reply.answer, "\n">>>>

\* what the reads of the loop of one option get: the line still on its way
\* from an earlier query first, then the answer to the own query if it
\* comes in time
Arriving(late, reply) ==
    (IF late.text = <<>> THEN <<>> ELSE <<late.text>>)
    \o (IF reply.intime THEN Line(reply) ELSE <<>>)

\* the number of lines the loop has taken when it ends in r
Taken(script, r) ==
    IF r.kind = "timeout" THEN Len(script) ELSE Len(script) - Len(r.script) + 1

\* the line that is left for the reads of the options to come
LeftOver(opt, late, reply, r) ==
    IF reply.answer # "" /\ Taken(Arriving(late, reply), r) < Len(Arriving(late, reply))
    THEN [opt |-> opt, text |-> Line(reply)[1]]
    ELSE IF reply.answer # "" /\ ~reply.intime
    THEN [opt |-> opt, text |-> Line(reply)[1]]
    ELSE NoLate

\* the option whose query the line taken last answers
AnswerOf(opt, late, r, script) ==
    IF late.text # <<>> /\ Taken(script, r) = 1 THEN late.opt ELSE opt

\* lines 2585-2815 for the next eligible option on a printer that may be
\* slow: the query is written and the loop reads what arrives, which is not
\* told apart by the query it answers; nothing is read or discarded before
\* the query is written (2670-2683)
PollOptionSlow ==
    /\ poll.state = "polling"
    /\ poll.pos <= Len(PollList(poll.installable))
    /\ \E opt \in {PollList(poll.installable)[poll.pos].keyword} :
        \E reply \in Replies(opt) :
          \E r \in {ReadLoop(opt, Arriving(poll.late, reply), 0, <<>>, 0)} :
            poll' = [poll EXCEPT !.pos = @ + 1,
                                 !.out = @ \o QueryWrites(opt, r),
                                 !.defaults = PollRecord(@, opt, r),
                                 !.status = PollStatus(@, r),
                                 !.faults = FALSE,
                                 !.reads = IF r.reads > @ THEN r.reads ELSE @,
                                 !.exhausted = IF r.kind = "timeout"
                                               THEN @ \cup {opt} ELSE @,
                                 !.late = LeftOver(opt, poll.late, reply, r),
                                 !.origin =
                                    IF r.kind = "recorded"
                                    THEN (opt :> AnswerOf(opt, poll.late, r,
                                                          Arriving(poll.late, reply))) @@ @
                                    ELSE @]
    /\ UNCHANGED <<encVars, pageVars, projVars, jobVars>>

\* the polled settings as option list: keyword and the text read
PolledList(defaults) ==
    { Opt(k, Text(defaults[k])) : k \in DOMAIN defaults }

\* a handler that goes on whatever the poll returned
PollUsedAlways(num_options) == TRUE

\* lines 3013 and 3070: "if (num_options)"
PollUsed(num_options) == num_options # 0

RECURSIVE MarkPolled(_, _)
MarkPolled(m, polled) ==
    IF polled = {} THEN m
    ELSE MarkPolled(MarkText(m, (CHOOSE p \in polled : TRUE).name,
                             (CHOOSE p \in polled : TRUE).value),
                    polled \ {CHOOSE p \in polled : TRUE})

\* cupsAddOption on the list of the accessory settings
ListAdd(list, o) ==
    IF \E i \in 1..Len(list) : list[i].name = o.name
    THEN [i \in 1..Len(list) |-> IF list[i].name = o.name THEN o ELSE list[i]]
    ELSE Append(list, o)

RECURSIVE ListJoin(_, _)
ListJoin(list, polled) ==
    IF polled = {} THEN list
    ELSE ListJoin(ListAdd(list, CHOOSE p \in polled : TRUE),
                  polled \ {CHOOSE p \in polled : TRUE})

\* lines 3013-3062: the polled accessory settings are joined with the saved
\* ones and marked, updated is unset and ps_status re-projects
InstallableTail(d, m, polled, ub) ==
    Then(DM([d EXCEPT !.installable_default = ListJoin(@, polled),
                      !.updated = FALSE],
            MarkPolled(MarkOptions(m, d.installable_default, 1), polled)),
         LAMBDA s : StatusOf(s.d, s.m, ub))

\* the value polled for a keyword, "" if none
Polled(polled, keyword) ==
    IF \E p \in polled : p.name = keyword
    THEN (CHOOSE p \in polled : p.name = keyword).value ELSE ""

\* lines 3087-3098, 3102-3113, 3117-3128, 3154-3164: the entry of a list of
\* the driver data that stands for the polled choice, counted from 0, -1 if
\* there is none
PolledEntry(maps, list, value) ==
    IF \E j \in 1..Len(maps) : Lower(maps[j].ppd) = Lower(value)
    THEN LET pwg == maps[CHOOSE j \in 1..Len(maps) :
                           /\ Lower(maps[j].ppd) = Lower(value)
                           /\ \A j2 \in 1..(j - 1) :
                                 Lower(maps[j2].ppd) # Lower(value)].pwg
         IN  IF \E k \in 1..Len(list) : list[k] = pwg
             THEN (CHOOSE k \in 1..Len(list) :
                     list[k] = pwg /\ \A k2 \in 1..(k - 1) : list[k2] # pwg) - 1
             ELSE -1
    ELSE -1

\* lines 3166-3174
PolledSides(d, value) ==
    IF value = "" THEN d.sides_default
    ELSE IF Lower(value) = Lower(Sides1Sided) THEN "one-sided"
    ELSE IF Lower(value) = Lower(Sides2SidedLong) THEN "two-sided-long-edge"
    ELSE IF Lower(value) = Lower(Sides2SidedShort) THEN "two-sided-short-edge"
    ELSE d.sides_default

\* lines 3222-3230: how well the media of a source fit the polled size and
\* type
MediaScore(item, size, type) ==
    (IF size # "" /\ item.size_name = size THEN 2 ELSE 0)
    + (IF type # "" /\ item.type = type THEN 1 ELSE 0)

\* lines 3220-3236
RECURSIVE BestMedia(_, _, _, _, _, _)
BestMedia(d, size, type, i, best, item) ==
    IF i > Len(d.source) THEN item
    ELSE IF MediaScore(d.media_ready[i], size, type) > best
    THEN BestMedia(d, size, type, i + 1,
                   MediaScore(d.media_ready[i], size, type), d.media_ready[i])
    ELSE BestMedia(d, size, type, i + 1, best, item)

\* lines 3217-3240
PolledMedia(d, source, size, type) ==
    IF source >= 0 THEN d.media_ready[source + 1]
    ELSE BestMedia(d, size, type, 1, 0, d.media_default)

NameAt(list, k) == IF k >= 0 THEN list[k + 1] ELSE ""

\* lines 3178-3212 and papplPrinterSetDriverDefaults: the default of the
\* vendor attribute of a polled option
PolledVendor(d, polled, i) ==
    IF /\ Polled(polled, d.vendor_ppd_options[i]) # ""
       /\ d.vendor_ppd_options[i] \in PpdOptions
       /\ FindChoice(d.vendor_ppd_options[i], Polled(polled, d.vendor_ppd_options[i]))
       /\ d.attrs[d.vendor[i]].kind # "none"
    THEN Unppdize(ChoiceFound(d.vendor_ppd_options[i],
                              Polled(polled, d.vendor_ppd_options[i])).text)
    ELSE d.attrs[d.vendor[i]].default

RECURSIVE PolledVendors(_, _, _)
PolledVendors(d, polled, i) ==
    IF i > Len(d.vendor) THEN d
    ELSE Then(IF d.vendor[i] \in DOMAIN d.attrs
              THEN [d EXCEPT !.attrs[d.vendor[i]].default =
                                PolledVendor(d, polled, i)]
              ELSE d,
              LAMBDA d2 : PolledVendors(d2, polled, i + 1))

\* lines 3072-3251: the polled defaults are marked and put into the driver
\* data (the PPD of this model has no query for the input slot, media type,
\* resolution, colour model and output bin)
DefaultsTail(d, m, polled) ==
    Then([d EXCEPT !.sides_default = PolledSides(d, Polled(polled, SidesOption)),
                   !.media_default =
                      PolledMedia(d,
                         PolledEntry(CacheSources, d.source, Polled(polled, SourceOption)),
                         NameAt(d.media, PolledEntry(CacheSizes, d.media,
                                                     Polled(polled, "PageSize"))),
                         "")],
         LAMBDA d2 : DM(PolledVendors(d2, polled, 1), MarkPolled(m, polled)))

\* the rest of the web handler (3013-3066, 3072-3254): the settings polled
\* are used
PollTail(polled, ub) ==
    IF ~PollUsed(PollReturn(poll.defaults, poll.status)) THEN DM(drv, ppdMarked)
    ELSE IF poll.installable
    THEN InstallableTail(drv, ppdMarked, polled, ub)
    ELSE DefaultsTail(drv, ppdMarked, polled)

\* lines 2822-2843: the end of the job is written, the device is closed, the
\* function returns to the web handler
PollFinish ==
    /\ poll.state = "polling"
    /\ poll.pos > Len(PollList(poll.installable))
    /\ poll' = [poll EXCEPT !.state = "done",
                            !.out = @ \o <<EndOfJob(drv), "close">>,
                            !.ret = PollReturn(poll.defaults, poll.status)]
    /\ UNCHANGED <<encVars, pageVars, projVars, jobVars>>

\* lines 3012-3066 and 3070-3254: the web handler after the poll returned
PollApply ==
    /\ poll.state = "done"
    /\ pgState # "crashed"
    /\ poll' = [poll EXCEPT !.state = "applied"]
    /\ \E polled \in {PolledList(poll.defaults)} :
         \E m2 \in {MarkPolled(MarkOptions(ppdMarked, drv.installable_default, 1),
                               polled)} :
            \E ub \in UbOutcomes(m2) :
               \E s \in {PollTail(polled, ub)} :
                  /\ drv' = s.d
                  /\ ppdMarked' = s.m
    /\ projAct' = IF ~PollUsed(PollReturn(poll.defaults, poll.status)) THEN projAct
                  ELSE IF poll.installable THEN "poll-installable"
                  ELSE "poll-defaults"
    /\ cycle' = NoCycle
    /\ UNCHANGED <<encVars, pageVars, jobVars>>

----------------------------------------------------------------------------
(* SpecMedia: accessory changes of the input trays and the loaded media.   *)

InitProj ==
    /\ encCol = 0
    /\ encRemaining = <<>>
    /\ encOut = <<>>
    /\ encIn = <<>>
    /\ encTodo = <<>>
    /\ encDone = FALSE
    /\ pgState = "idle"
    /\ lineCount = 0
    /\ hdr = NoHeader
    /\ rxLines = 0
    /\ fed = <<>>
    /\ pagesDone = 0
    /\ devOut = <<>>
    /\ devStatus = NoDevStatus
    /\ ppdFile = ModelPpd
    /\ ProjInit

NextMedia == Status \/ SetTrays \/ SetReadyMedia

SpecMedia == InitProj /\ [][NextMedia]_vars

----------------------------------------------------------------------------
(* SpecJob: accessory changes and jobs whose options are resolved.         *)

\* the forms that concern the second tray, the duplex unit and the finisher
AccessoryForms ==
    { f \in Forms : \A o \in {"InstTray1", "InstTray3"} : o \in DOMAIN f }

SetAccessories == \E form \in AccessoryForms : SetInstallableForm(form)

NextJob == Status \/ SetAccessories \/ RStartJobAny \/ REndJob

SpecJob == InitProj /\ [][NextJob]_vars

----------------------------------------------------------------------------
(* SpecInit: printers whose PPDs differ in the accessories they take as    *)
(* installed by default, set up in Init mode and re-projected afterwards.  *)

\* the default resolutions the PPDs name
DefaultResolutions == {"600dpi", "1200x600dpi"}

\* the default choices of the duplex option the PPDs name
DefaultDuplex == {"None", "DuplexNoTumble"}

\* the choices ppdMarkDefaults marks: the duplex unit and the finisher are
\* there by default or they are not, the default resolution is one of
\* DefaultResolutions and the default of the duplex option one of
\* DefaultDuplex
DefaultMarkings ==
    { [PpdDefaults EXCEPT !["InstDuplexer"] = x, !["InstFinisher"] = f,
                          !["Resolution"] = r, ![SidesOption] = s] :
         x \in {"True", "False"}, f \in {"True", "False"},
         r \in DefaultResolutions, s \in DefaultDuplex }

InitModels ==
    /\ encCol = 0
    /\ encRemaining = <<>>
    /\ encOut = <<>>
    /\ encIn = <<>>
    /\ encTodo = <<>>
    /\ encDone = FALSE
    /\ pgState = "idle"
    /\ lineCount = 0
    /\ hdr = NoHeader
    /\ rxLines = 0
    /\ fed = <<>>
    /\ pagesDone = 0
    /\ devOut = <<>>
    /\ devStatus = NoDevStatus
    /\ ppdFile = ModelPpd
    /\ poll = NoPoll
    /\ jobReq = <<>>
    /\ jobOptions = NoOptions
    /\ jobSteps = <<>>
    /\ jobResult = "none"
    /\ \E m \in DefaultMarkings :
          \E s \in {DriverSetup(FALSE, EmptyDriver, m, NoUb)} :
             /\ drv = s.d
             /\ ppdMarked = s.m
    /\ projAct = "init"
    /\ cycle = NoCycle

\* any form the web page of the accessories can send
SetInstallable == \E form \in Forms : SetInstallableForm(form)

NextInit == Status \/ SetInstallable

SpecInit == InitModels /\ [][NextInit]_vars

\* SpecBins: the same for printers whose PPD has output bins of the
\* finisher only
InitBins ==
    /\ encCol = 0
    /\ encRemaining = <<>>
    /\ encOut = <<>>
    /\ encIn = <<>>
    /\ encTodo = <<>>
    /\ encDone = FALSE
    /\ pgState = "idle"
    /\ lineCount = 0
    /\ hdr = NoHeader
    /\ rxLines = 0
    /\ fed = <<>>
    /\ pagesDone = 0
    /\ devOut = <<>>
    /\ devStatus = NoDevStatus
    /\ ppdFile = FinisherBinsPpd
    /\ poll = NoPoll
    /\ jobReq = <<>>
    /\ jobOptions = NoOptions
    /\ jobSteps = <<>>
    /\ jobResult = "none"
    /\ \E m \in { k \in DefaultMarkings :
                     k["Resolution"] = "600dpi" /\ k[SidesOption] = "None" } :
          \E s \in {DriverSetup(FALSE, EmptyDriver, m, NoUb)} :
             /\ drv = s.d
             /\ ppdMarked = s.m
    /\ projAct = "init"
    /\ cycle = NoCycle

SpecBins == InitBins /\ [][NextInit]_vars

----------------------------------------------------------------------------
(* SpecPoll: poll sessions against a device that answers as it likes.      *)

Poll == \E installable, reachable \in BOOLEAN : PollStart(installable, reachable)

\* ppd->jcl_end of the PPDs: none, or the JCL that ends a job
JclEnds == {"", "jcl_end"}

InitPoll ==
    /\ encCol = 0
    /\ encRemaining = <<>>
    /\ encOut = <<>>
    /\ encIn = <<>>
    /\ encTodo = <<>>
    /\ encDone = FALSE
    /\ pgState = "idle"
    /\ lineCount = 0
    /\ hdr = NoHeader
    /\ rxLines = 0
    /\ fed = <<>>
    /\ pagesDone = 0
    /\ devOut = <<>>
    /\ devStatus = NoDevStatus
    /\ ppdFile = ModelPpd
    /\ poll = NoPoll
    /\ jobReq = <<>>
    /\ jobOptions = NoOptions
    /\ jobSteps = <<>>
    /\ jobResult = "none"
    /\ \E j \in JclEnds : drv = [InitSetup.d EXCEPT !.jcl_end = j]
    /\ ppdMarked = InitSetup.m
    /\ projAct = "init"
    /\ cycle = NoCycle

NextPoll == Poll \/ PollOption \/ PollFinish \/ PollApply

SpecPoll == InitPoll /\ [][NextPoll]_vars

\* SpecSlow: poll sessions against a printer whose answers may come late
NextSlow == Poll \/ PollOptionSlow \/ PollFinish \/ PollApply

SpecSlow == InitPoll /\ [][NextSlow]_vars

\* SpecConfig: poll sessions, and between them the operator's forms, which
\* say whether the finisher is there
FinisherForms ==
    { f \in Forms : \A o \in InstallableOptions \ {"InstFinisher"} : o \in DOMAIN f }

SetBetweenPolls ==
    /\ poll.state \in {"idle", "applied"}
    /\ \E form \in FinisherForms : SetInstallableForm(form)

NextConfig == NextPoll \/ SetBetweenPolls

SpecConfig == InitPoll /\ [][NextConfig]_vars

\* SpecFlag: the same with status callbacks at any time, needed or not
NextFlag ==
    Poll \/ PollOption \/ PollFinish \/ PollApply \/ SetBetweenPolls \/ StatusCall

\* one printer, its PPD without jcl_end
InitFlag == InitPoll /\ drv.jcl_end = ""

SpecFlag == InitFlag /\ [][NextFlag]_vars

----------------------------------------------------------------------------
(* SpecEnc: a caller hands a byte sequence to ps_ascii85 in chunks *)

InitEnc ==
    /\ encCol = 0
    /\ encRemaining = <<>>
    /\ encOut = <<>>
    /\ encIn = <<>>
    /\ encTodo \in SeqsUpTo(ByteVals, MaxLen)
    /\ encDone = FALSE
    /\ pgState = "idle"
    /\ lineCount = 0
    /\ hdr = NoHeader
    /\ rxLines = 0
    /\ fed = <<>>
    /\ pagesDone = 0
    /\ devOut = <<>>
    /\ devStatus = NoDevStatus
    /\ ppdFile = ModelPpd
    /\ ProjInit

\* ps_ascii85(fp, data, n, 0) with the next n bytes, n >= 0
EncFeed ==
    /\ ~encDone
    /\ \E n \in 0..Len(encTodo) :
         \E data \in {SubSeq(encTodo, 1, n)} :
         \E r \in {Ascii85(encCol, encRemaining, data, FALSE)} :
            /\ encCol' = r.col
            /\ encRemaining' = r.rem
            /\ encOut' = encOut \o r.out
            /\ encIn' = encIn \o data
            /\ encTodo' = SubSeq(encTodo, n + 1, Len(encTodo))
            /\ encDone' = FALSE
    /\ UNCHANGED pageVars
    /\ UNCHANGED <<projVars, jobVars, poll>>

\* ps_ascii85(fp, NULL, 0, 1): the final flush
EncFlush ==
    /\ ~encDone
    /\ encTodo = <<>>
    /\ \E r \in {Ascii85(encCol, encRemaining, <<>>, TRUE)} :
          /\ encCol' = r.col
          /\ encRemaining' = r.rem
          /\ encOut' = encOut \o r.out
          /\ encIn' = encIn
          /\ encTodo' = encTodo
          /\ encDone' = TRUE
    /\ UNCHANGED pageVars
    /\ UNCHANGED <<projVars, jobVars, poll>>

NextEnc == EncFeed \/ EncFlush

SpecEnc == InitEnc /\ [][NextEnc]_vars

----------------------------------------------------------------------------
(* SpecTwo: two printers of the system print one page each at the same     *)
(* time.  Every printer has its job thread, job data and device file; the  *)
(* static variables of ps_ascii85 exist once in the process.  encOut,      *)
(* encIn, encTodo and encDone hold one value per job here; encTodo is the  *)
(* sequence of raster lines the job still has to write.  The calls of      *)
(* ps_ascii85 are taken one after the other, in any order of the threads   *)
(* (the threads do not lock; calls that overlap in time can do worse).     *)

TwoJobs == {1, 2}

\* the pages of a job: some lines of some bytes, all pixels on or all off
TwoPages ==
    UNION { { [i \in 1..h |-> [n \in 1..bpl |-> v]] : v \in PixelVals } :
              h \in 1..MaxHeight, bpl \in 1..MaxBpl }

InitTwo ==
    /\ encCol = 0
    /\ encRemaining = <<>>
    /\ encOut = [j \in TwoJobs |-> <<>>]
    /\ encIn = [j \in TwoJobs |-> <<>>]
    /\ encTodo \in [TwoJobs -> TwoPages]
    /\ encDone = [j \in TwoJobs |-> FALSE]
    /\ pgState = "idle"
    /\ lineCount = 0
    /\ hdr = NoHeader
    /\ rxLines = 0
    /\ fed = <<>>
    /\ pagesDone = 0
    /\ devOut = <<>>
    /\ devStatus = NoDevStatus
    /\ ppdFile = ModelPpd
    /\ ProjInit

\* one call ps_ascii85(devout of job j, data, length, last_data) on the
\* static state as the call finds it
TwoCall(j, data, last) ==
    \E r \in {Ascii85(encCol, encRemaining, data, last)} :
        /\ encCol' = r.col
        /\ encRemaining' = r.rem
        /\ encOut' = [encOut EXCEPT ![j] = @ \o r.out]
        /\ encIn' = [encIn EXCEPT ![j] = @ \o data]
        /\ encDone' = [encDone EXCEPT ![j] = last]

\* ps_rwriteline of job j (line 3763)
TwoWriteLine ==
    /\ \E j \in TwoJobs :
         /\ ~encDone[j]
         /\ encTodo[j] # <<>>
         /\ TwoCall(j, Head(encTodo[j]), FALSE)
         /\ encTodo' = [encTodo EXCEPT ![j] = Tail(@)]
    /\ UNCHANGED pageVars
    /\ UNCHANGED <<projVars, jobVars, poll>>

\* ps_rendpage of job j, all lines written (line 3535)
TwoEndPage ==
    /\ \E j \in TwoJobs :
         /\ ~encDone[j]
         /\ encTodo[j] = <<>>
         /\ TwoCall(j, <<>>, TRUE)
         /\ encTodo' = encTodo
    /\ UNCHANGED pageVars
    /\ UNCHANGED <<projVars, jobVars, poll>>

NextTwo == TwoWriteLine \/ TwoEndPage

SpecTwo == InitTwo /\ [][NextTwo]_vars

\* SpecLong: the same two printers, the page of the first long enough for
\* the encoder to wrap its lines, the page of the second short; every
\* raster line is one group of 4 bytes
LongHeights == {16, 30}

ShortHeights == {1, 2}

LongPages(j) ==
    { [i \in 1..h |-> [n \in 1..4 |-> v]] :
        h \in (IF j = 1 THEN LongHeights ELSE ShortHeights), v \in PixelVals }

InitLong ==
    /\ encCol = 0
    /\ encRemaining = <<>>
    /\ encOut = [j \in TwoJobs |-> <<>>]
    /\ encIn = [j \in TwoJobs |-> <<>>]
    /\ encTodo \in { f \in [TwoJobs -> LongPages(1) \cup LongPages(2)] :
                       \A j \in TwoJobs : f[j] \in LongPages(j) }
    /\ encDone = [j \in TwoJobs |-> FALSE]
    /\ pgState = "idle"
    /\ lineCount = 0
    /\ hdr = NoHeader
    /\ rxLines = 0
    /\ fed = <<>>
    /\ pagesDone = 0
    /\ devOut = <<>>
    /\ devStatus = NoDevStatus
    /\ ppdFile = ModelPpd
    /\ ProjInit

SpecLong == InitLong /\ [][NextTwo]_vars

----------------------------------------------------------------------------
(* SpecPage: one job at a time is streamed through the raster callbacks *)

\* the printer after the form of the accessories was sent with every box
\* but the finisher's checked (the handler SetInstallableForm on the printer
\* as set up)
NoFinisherForm == [o \in InstallableOptions \ {"InstFinisher"} |-> "True"]

AfterForm(form) ==
    StatusOf([InitSetup.d EXCEPT !.installable_default = InstallableList(form),
                                 !.updated = FALSE],
             MarkOptions(InitSetup.m, InstallableList(form), 1), NoUb)

InitPage ==
    /\ encCol = 0
    /\ encRemaining = <<>>
    /\ encOut = <<>>
    /\ encIn = <<>>
    /\ encTodo = <<>>
    /\ encDone = FALSE
    /\ pgState = "idle"
    /\ lineCount = 0
    /\ hdr = NoHeader
    /\ rxLines = 0
    /\ fed = <<>>
    /\ pagesDone = 0
    /\ devOut = <<>>
    /\ devStatus = NoDevStatus
    /\ ppdFile = ModelPpd
    /\ jobReq = NoJob
    /\ jobOptions = NoOptions
    /\ jobSteps = <<>>
    /\ jobResult = "none"
    /\ poll = NoPoll
    /\ \E j \in JclEnds : drv = [AfterForm(NoFinisherForm).d EXCEPT !.jcl_end = j]
    /\ ppdMarked = AfterForm(NoFinisherForm).m
    /\ projAct = "set-installable"
    /\ cycle = NoCycle

NextPage == RStartJob \/ RStartPage \/ RWriteLine \/ REndPage \/ REndJob

SpecPage == InitPage /\ [][NextPage]_vars

\* SpecIo: the same jobs on a device that may refuse a write at any time
NextIo == IoStartJob \/ IoStartPage \/ IoWriteLine \/ IoEndPage \/ IoEndJob

SpecIo == InitPage /\ [][NextIo]_vars

\* the job is given up with its page open: ps_rendpage and ps_rendjob are not
\* called for it, nothing more is written, the next callback is the
\* ps_rstartjob of the next job
AbandonJob ==
    /\ pgState = "page"
    /\ pgState' = "idle"
    /\ lineCount' = 0
    /\ hdr' = NoHeader
    /\ rxLines' = 0
    /\ fed' = <<>>
    /\ pagesDone' = 0
    /\ encOut' = <<>>
    /\ encIn' = <<>>
    /\ jobReq' = NoJob
    /\ jobOptions' = NoOptions
    /\ jobSteps' = <<>>
    /\ jobResult' = "none"
    /\ UNCHANGED <<encCol, encRemaining, encTodo, encDone, devOut, devStatus,
                   projVars, ppdFile, poll>>

\* SpecAbandon: the same jobs, some of them given up inside a page
NextAbandon ==
    RStartJob \/ RStartPage \/ RWriteLine \/ REndPage \/ REndJob \/ AbandonJob

SpecAbandon == InitPage /\ [][NextAbandon]_vars

\* the cancellation of the job that holds the device is signalled
Cancel ==
    /\ pgState \in {"job", "page", "pageEnd"}
    /\ devStatus.canceled < 0
    /\ devStatus' = [devStatus EXCEPT !.canceled = Len(devOut)]
    /\ UNCHANGED <<encVars, pgState, lineCount, hdr, rxLines, fed, pagesDone,
                   devOut, projVars, jobVars, poll>>

\* the caller of the callbacks starts no page and hands over no line once
\* the job is canceled; it ends the page that is open and the job
CancelStartPage == devStatus.canceled < 0 /\ RStartPage
CancelWriteLine == devStatus.canceled < 0 /\ RWriteLine

\* SpecCancel: the same jobs, canceled at any time
NextCancel ==
    RStartJob \/ CancelStartPage \/ CancelWriteLine \/ REndPage \/ REndJob \/ Cancel

SpecCancel == InitPage /\ [][NextCancel]_vars

----------------------------------------------------------------------------
(* SpecGray: jobs on printers whose PPDs differ in what they say of colour *)

\* the choices of ColorModel: the second one is the gray one, whatever name
\* the manufacturer gave it
ColorModels ==
    { <<Ch("RGB", "Color"), Ch(gray, "Grayscale")>> :
         gray \in {"Gray", "Grayscale", "Black"} }

\* colour and monochrome devices; the mono preset of normal quality sets
\* the gray choice of ColorModel or nothing
PpdFiles ==
    UNION { { [color_device |-> cd, color_model |-> cm,
               presets |-> [ModelPresets EXCEPT ![1][2] = p],
               constraints |-> {}] :
                 cd \in BOOLEAN,
                 p \in {<<>>, <<Opt("ColorModel", cm[2].choice)>>} } :
            cm \in ColorModels }

InitGray ==
    /\ encCol = 0
    /\ encRemaining = <<>>
    /\ encOut = <<>>
    /\ encIn = <<>>
    /\ encTodo = <<>>
    /\ encDone = FALSE
    /\ pgState = "idle"
    /\ lineCount = 0
    /\ hdr = NoHeader
    /\ rxLines = 0
    /\ fed = <<>>
    /\ pagesDone = 0
    /\ devOut = <<>>
    /\ devStatus = NoDevStatus
    /\ ppdFile \in PpdFiles
    /\ jobReq = NoJob
    /\ jobOptions = NoOptions
    /\ jobSteps = <<>>
    /\ jobResult = "none"
    /\ poll = NoPoll
    /\ drv = AfterForm(NoFinisherForm).d
    /\ ppdMarked = AfterForm(NoFinisherForm).m
    /\ projAct = "set-installable"
    /\ cycle = NoCycle

NextGray == RStartJobAny \/ REndJob

SpecGray == InitGray /\ [][NextGray]_vars

----------------------------------------------------------------------------
(* C1 *)

\* C1: after the final flush the emitted text decodes, with a standard
\* ASCII85 decoder, to exactly the bytes that were handed over.
C1_RoundTrip == encDone => Decode(encOut) = encIn

----------------------------------------------------------------------------
(* C2 *)

PadsOf(f) == SelectSeq(f, LAMBDA e : e.kind = "pad")

\* C2: when a page of declared height H got n < H lines, ps_rendpage hands
\* exactly H - n further lines of cupsBytesPerLine bytes to the encoder before
\* the flush, so H lines are encoded; a padding line is all 0x00 for K and
\* CMYK and all 0xFF otherwise.
C2_PagePadding ==
    (pgState = "pageEnd" /\ rxLines < hdr.height) =>
        /\ Len(fed) = hdr.height
        /\ Len(PadsOf(fed)) = hdr.height - rxLines
        /\ \A i \in 1..Len(fed) :
             /\ Len(fed[i].bytes) = hdr.bpl
             /\ i <= rxLines => fed[i].kind = "line"
             /\ i > rxLines =>
                   /\ fed[i].kind = "pad"
                   /\ \A j \in 1..hdr.bpl :
                        fed[i].bytes[j] =
                          (IF hdr.cspace \in {"K", "CMYK"} THEN 0 ELSE 255)
        /\ Len(encOut) >= 3
        /\ SubSeq(encOut, Len(encOut) - 2, Len(encOut)) =
              <<ChTilde, ChGreater, ChNewline>>
        /\ \A i \in 1..(Len(encOut) - 3) : encOut[i] # ChTilde

\* a page of a black-primary colour space that got no line was padded with
\* two lines
C2_Witness ==
    /\ pgState = "pageEnd"
    /\ rxLines < hdr.height
    /\ hdr.cspace = "CMYK"
    /\ Len(PadsOf(fed)) = 2

----------------------------------------------------------------------------
(* C3, C4, C7: the media_ready table *)

\* the state is as an Update projection has left it
Projected == projAct \in {"status", "set-installable"}

\* the items of a media_ready table that name source src
EntriesOf(ready, src) ==
    { ready[p] : p \in { q \in 1..PAPPL_MAX_SOURCE : ready[q].source = src } }

\* the active prefix of the table holds the sources the marking offers, one
\* item each, in the order of the capability model
PrefixInModelOrder ==
    /\ Len(drv.source) = Len(OfferedSources(ppdMarked))
    /\ \A p \in 1..Len(drv.source) :
         drv.media_ready[p].source = OfferedSources(ppdMarked)[p].pwg

\* C3: when a source S was taken away by one Update projection and put back
\* by the next, with nothing else changed in between, the table holds for S
\* exactly the item it held before S was taken away, the items of all other
\* sources are the ones held before, and the active prefix is in model order.
C3_UndoFidelity ==
    cycle.phase = "restored" =>
        /\ EntriesOf(drv.media_ready, cycle.src) = EntriesOf(cycle.ready, cycle.src)
        /\ Cardinality(EntriesOf(drv.media_ready, cycle.src)) = 1
        /\ \A c \in PwgNames(CacheSources) :
              EntriesOf(drv.media_ready, c) = EntriesOf(cycle.ready, c)
        /\ PrefixInModelOrder

\* a source that holds media other than the first load was taken away and
\* put back, while another source stayed away all the time
C3_Witness ==
    /\ cycle.phase = "restored"
    /\ \E p \in Loaded(drv) : drv.media_ready[p].source = cycle.src
    /\ Len(drv.source) < Len(CacheSources)

\* the lists and defaults the driver data exposes
Exposed(d) ==
    [ sides_supported |-> d.sides_supported, sides_default |-> d.sides_default,
      finishings |-> d.finishings, resolution |-> d.resolution,
      x_default |-> d.x_default, y_default |-> d.y_default,
      source |-> d.source, type |-> d.type, media |-> d.media,
      media_default |-> d.media_default, bin |-> d.bin,
      bin_default |-> d.bin_default, vendor |-> d.vendor, attrs |-> d.attrs ]

InstallableMarks(m) == [o \in InstallableOptions |-> m[o]]

\* C4: an Update projection that follows an Update projection with the same
\* accessory configuration leaves the exposed lists, the defaults and the
\* whole media_ready table (active prefix and undo region) as they were.
C4_Idempotent ==
    [][ ( /\ Projected
          /\ projAct' = "set-installable"
          /\ InstallableMarks(ppdMarked') = InstallableMarks(ppdMarked) )
        => /\ Exposed(drv') = Exposed(drv)
           /\ drv'.media_ready = drv.media_ready ]_vars

\* C7: after every Update projection the first num_source items of
\* media_ready are the sources the accessory configuration offers, one item
\* each, in model order, so that no item of a source that is not offered
\* lies in that prefix.
C7_ReadyInvariant ==
    Projected =>
        /\ PrefixInModelOrder
        /\ \A p \in 1..Len(drv.source) :
              drv.media_ready[p].source \in PwgNames(OfferedSources(ppdMarked))

----------------------------------------------------------------------------
(* C5, C8, C9 *)

\* the job asks for a resolution that is a choice of the model
ValidResolutionRequest(job) ==
    /\ job.printer_resolution[1] # 0
    /\ job.resolution_attr
    /\ ResRequested(job) # ""

\* the values the preset bucket of the job gives to a keyword
PresetValues(job, keyword) ==
    { Presets(job)[k].value :
        k \in { n \in 1..Len(Presets(job)) : Presets(job)[n].name = keyword } }

\* C5: when the preset bucket selected by colour mode and quality sets
\* Resolution=X and the job asks for a resolution Y that is a choice of the
\* model, the resolved set a pass returns holds Resolution=X, not Y.
C5_ResolutionPrecedence ==
    (/\ jobResult = "returned"
     /\ ValidResolutionRequest(jobReq)
     /\ PresetValues(jobReq, "Resolution") # {})
    => /\ HasOption(jobOptions, "Resolution")
       /\ jobOptions["Resolution"] \in PresetValues(jobReq, "Resolution")

C5_Witness ==
    /\ jobResult = "returned"
    /\ ValidResolutionRequest(jobReq)
    /\ PresetValues(jobReq, "Resolution") # {}
    /\ ResRequested(jobReq) \notin PresetValues(jobReq, "Resolution")
    /\ jobOptions["Resolution"] \in PresetValues(jobReq, "Resolution")

\* C8: within one pass of ps_create_job_data, once a step has put a keyword
\* into the resolved set, no later step changes the value of that keyword;
\* later steps only add keywords left unset.
C8_NoOverwrite ==
    jobResult = "returned"
    => \A i \in 1..(Len(jobSteps) - 1) :
          \A k \in DOMAIN jobSteps[i].opts :
             /\ k \in DOMAIN jobSteps[i + 1].opts
             /\ jobSteps[i + 1].opts[k] = jobSteps[i].opts[k]

\* C9: every (option, choice) pair of the resolved set a pass returns is
\* free of conflict with the accessory configuration marked at that time.
C9_NoAccessoryConflict ==
    (projAct = "job" /\ jobResult = "returned")
    => \A k \in DOMAIN jobOptions \cap PpdOptions :
          ~InstallableConflict(ppdMarked, k, jobOptions[k])

\* the queries a complete session writes, in the order of the PPD
QueriesOf(installable) ==
    [i \in 1..Len(PollList(installable)) |->
        "?" \o PollList(installable)[i].keyword]

\* C6: a session in which the answer to every query is an interpreter's
\* error message (a line with a colon) records no option and returns 0 with
\* an empty list, and it still runs to its normal end: every eligible
\* option is queried, the end of the job is written, the device is closed
C6_PollDegradation ==
    /\ (poll.state = "polling" /\ poll.faults) => poll.defaults = NoOptions
    /\ (poll.state = "done" /\ poll.faults /\ poll.out # <<>>) =>
          /\ poll.defaults = NoOptions
          /\ poll.ret = 0
          /\ poll.out = <<"header", "errorhandler">>
                           \o QueriesOf(poll.installable)
                           \o <<EndOfJob(drv), "close">>

C6_Witness ==
    /\ poll.state = "done"
    /\ poll.faults
    /\ poll.status = 1
    /\ Len(poll.out) > 4

\* the choices an option declares, as the PPD spells them
Declared(opt) == { PpdChoices[opt][k].choice : k \in 1..Len(PpdChoices[opt]) }

\* the option is one the session's scope makes eligible
EligibleKeyword(opt, installable) ==
    \E i \in 1..Len(AllOptions) :
        /\ AllOptions[i].keyword = opt
        /\ IsInstallableGroup(AllOptions[i].group) = installable
        /\ Len(PpdChoices[opt]) >= 2
        /\ opt \in PpdQueries

\* C10 as stated: every entry (O, v) of the mapping has O an eligible option
\* of the session's scope and v one of the choices O declares; an answer
\* with a colon or equal to "Unknown" is never recorded
C10_Original ==
    \A opt \in DOMAIN poll.defaults :
        /\ EligibleKeyword(opt, poll.installable)
        /\ Text(poll.defaults[opt]) \in Declared(opt)
        /\ ~HasColon(poll.defaults[opt])
        /\ Text(poll.defaults[opt]) # "Unknown"

\* C10: every entry (O, v) of the mapping has O an eligible option of the
\* session's scope and v an answer that names a choice O declares when case
\* is disregarded, or a custom value when O declares the choice Custom; an
\* answer with a colon is never recorded, and neither is "Unknown" in any
\* case of letters (no option of this PPD declares such a choice)
C10_PollWellFormed ==
    \A opt \in DOMAIN poll.defaults :
        /\ EligibleKeyword(opt, poll.installable)
        /\ \/ \E c \in Declared(opt) : Lower(c) = Lower(Text(poll.defaults[opt]))
           \/ /\ "Custom" \in Declared(opt)
              /\ Text(poll.defaults[opt]) \in CustomValues
        /\ ~HasColon(poll.defaults[opt])
        /\ Lower(Text(poll.defaults[opt])) # "unknown"

C10_Witness ==
    /\ poll.state = "done"
    /\ poll.ret > 0
    /\ \E opt \in DOMAIN poll.defaults :
          Text(poll.defaults[opt]) \notin Declared(opt)

\* the poller with the scheduling of the code: the function runs on by
\* itself once it was called
SpecPollFair == SpecPoll /\ WF_vars(PollOption) /\ WF_vars(PollFinish)

\* C11: whatever the device does (no answer, lines that are no answer, an
\* answer in fragments without end), no option gets more than 100 reads, an
\* option whose reads ran out is not recorded while the options after it are
\* still queried, and every session that began comes to its end
C11_PollTermination ==
    /\ [](/\ poll.reads <= 100
          /\ poll.exhausted \cap DOMAIN poll.defaults = {}
          /\ (poll.state = "done" /\ poll.out # <<>>) =>
                Len(poll.out) = 4 + Len(PollList(poll.installable)))
    /\ ((poll.state = "polling") ~> (poll.state = "done"))

C11_Witness ==
    /\ poll.state = "done"
    /\ poll.reads = 100
    /\ \E i \in 1..Len(PollList(poll.installable)) :
          /\ PollList(poll.installable)[i].keyword \in poll.exhausted
          /\ \E j \in (i + 1)..Len(PollList(poll.installable)) :
                PollList(poll.installable)[j].keyword \in DOMAIN poll.defaults

\* how often a token was written to the device
Count(out, token) == Cardinality({ i \in 1..Len(out) : out[i] = token })

\* C12: a session that opened the device ends, after the last eligible
\* option was tried and whatever came of the options, with the end-of-job
\* script of the PPD (the byte 0x04 for a PPD without one) and then the
\* close of the device, which happens once; a session that cannot open the
\* device writes nothing and returns 0
C12_PollSessionEnd ==
    /\ (poll.state = "polling") => Count(poll.out, "close") = 0
    /\ (poll.state \in {"done", "applied"} /\ poll.opened) =>
          /\ poll.pos = Len(PollList(poll.installable)) + 1
          /\ Len(poll.out) = 4 + Len(PollList(poll.installable))
          /\ poll.out[Len(poll.out) - 1] =
                (IF drv.jcl_end = "" THEN "0x04" ELSE drv.jcl_end)
          /\ poll.out[Len(poll.out)] = "close"
          /\ Count(poll.out, "close") = 1
          /\ Count(poll.out, "0x04") + Count(poll.out, "jcl_end") = 1
    /\ (poll.state \in {"done", "applied"} /\ ~poll.opened) =>
          poll.out = <<>> /\ poll.ret = 0 /\ poll.defaults = NoOptions

C12_Witness ==
    /\ poll.state = "done"
    /\ poll.opened
    /\ drv.jcl_end = ""
    /\ poll.status = 1
    /\ poll.ret > 0

----------------------------------------------------------------------------
(* The device stream of a job *)

\* the marker of a page, as the stream structure spells it
PageMarker(n) ==
    <<"%%Page: (1) 1", "%%Page: (2) 2", "%%Page: (3) 3", "%%Page: (4) 4">>[n]

\* the parts of the device stream that the stream structure names
Named ==
    {"%!PS-Adobe-3.0", "%%Pages: (atend)", "%%BeginProlog", "%%BeginSetup",
     "%%BeginPageSetup", "image", "data", "~>", "showpage", "%%PageTrailer",
     "%%Trailer", "%%EOF"} \cup { PageMarker(n) : n \in 1..4 }

IsNamed(token) == token \in Named

\* the named parts of a job's opening
NamedOpening ==
    <<"%!PS-Adobe-3.0", "%%Pages: (atend)", "%%BeginProlog", "%%BeginSetup">>

\* the named parts of one finished page
NamedPage(n) ==
    <<PageMarker(n), "%%BeginPageSetup", "image", "data", "~>", "showpage",
      "%%PageTrailer">>

\* the named parts of the first n finished pages
RECURSIVE NamedPages(_)
NamedPages(n) == IF n = 0 THEN <<>> ELSE NamedPages(n - 1) \o NamedPage(n)

\* C13: for a job driven as JobStart, then per page PageStart, lines,
\* PageEnd, then JobEnd, the device stream holds, in this order: the DSC
\* header with "%%Pages: (atend)", the prolog and the setup; for every page
\* its marker "%%Page: (n) n", the page setup, the image prologue, the
\* encoded raster ended by exactly one "~>", then "showpage" and
\* "%%PageTrailer"; at the end "%%Trailer" and "%%EOF".  Encoded raster
\* stands nowhere but between the image prologue and the marker of a page.
C13_StreamStructure ==
    LET seen == SelectSeq(devOut, IsNamed)
        open == NamedOpening \o NamedPages(pagesDone)
        begun == open \o SubSeq(NamedPage(pagesDone + 1), 1, 3)
    IN  /\ pgState = "job" => seen = NamedOpening
        /\ pgState = "pageEnd" => seen = open
        /\ pgState = "page" =>
              seen \in {begun, begun \o <<"data">>}
        /\ (pgState = "idle" /\ devOut # <<>>) =>
              \E n \in 0..(MaxPages + 1) :
                 seen = NamedOpening \o NamedPages(n) \o <<"%%Trailer", "%%EOF">>

C13_Witness ==
    /\ pgState = "idle"
    /\ Count(devOut, "%%PageTrailer") = 2
    /\ Count(devOut, "~>") = 2
    /\ devOut[Len(devOut)] = "0x04"

\* the last n tokens of the device stream
LastWritten(n) ==
    IF Len(devOut) < n THEN <<>> ELSE SubSeq(devOut, Len(devOut) - n + 1, Len(devOut))

\* the text "%%Pages: N" for the pages the finished job completed
PagesLine ==
    <<"%%Pages: 0", "%%Pages: 1", "%%Pages: 2", "%%Pages: 3", "%%Pages: 4">>
        [Count(devOut, "%%PageTrailer") + 1]

\* what ends a job on the device: the end-of-job script or the byte 0x04
JobEnd == IF drv.jcl_end = "" THEN "0x04" ELSE drv.jcl_end

\* a job has ended and its stream is the last thing written
JobEnded == pgState = "idle" /\ devOut # <<>>

\* C14 as stated: every finished job, a job without a completed page
\* included, ends with "%%Trailer", "%%Pages: N" for its N completed pages,
\* "%%EOF" and the end-of-job script or 0x04
C14_Original ==
    JobEnded => LastWritten(4) = <<"%%Trailer", PagesLine, "%%EOF", JobEnd>>

\* C14: a finished job with N > 0 completed pages ends with "%%Trailer",
\* "%%Pages: N", "%%EOF" and the end-of-job script or 0x04; a finished job
\* without a completed page ends with "%%Trailer", "%%EOF" and the
\* end-of-job script or 0x04, and no "%%Pages:" line follows its header
C14_JobTrailer ==
    JobEnded =>
       IF Count(devOut, "%%PageTrailer") > 0
       THEN LastWritten(4) = <<"%%Trailer", PagesLine, "%%EOF", JobEnd>>
       ELSE /\ LastWritten(3) = <<"%%Trailer", "%%EOF", JobEnd>>
            /\ Count(devOut, "%%Pages: 0") = 0

C14_Witness ==
    /\ JobEnded
    /\ Count(devOut, "%%PageTrailer") = 0
    /\ drv.jcl_end = "jcl_end"

\* C15: when a write towards the device has failed during job start, page
\* start, a line, page end or job end, the callback returns false, so that
\* the job is aborted
C15_WriteFailureAborts == devStatus.failed => ~devStatus.ret

----------------------------------------------------------------------------
(* The encoder between pages *)

\* what an encoder in state st writes for the lines, one call per line
RECURSIVE TextOf(_, _)
TextOf(st, lines) ==
    IF lines = <<>> THEN st
    ELSE Then(Ascii85(st.col, st.rem, Head(lines).bytes, FALSE),
              LAMBDA r : TextOf([col |-> r.col, rem |-> r.rem, out |-> st.out \o r.out],
                                Tail(lines)))

\* an encoder that has not been used
Fresh == [col |-> 0, rem |-> <<>>, out |-> <<>>]

\* the places of the end-of-data marker in a text
Markers(text) ==
    { i \in 1..(Len(text) - 1) : text[i] = ChTilde /\ text[i + 1] = ChGreater }

\* C16: after a call of ps_ascii85 with last_data set the marker "~>" stands
\* after all data of the page, the encoder holds no pending byte and is in
\* column 0, and what it writes for the lines of the page that follows is
\* what an unused encoder writes for them
C16_EncoderReset ==
    /\ pgState = "pageEnd" =>
          /\ encCol = 0
          /\ encRemaining = <<>>
          /\ Markers(encOut) = {Len(encOut) - 2}
          /\ encOut[Len(encOut)] = ChNewline
    /\ pgState = "page" => encOut = TextOf(Fresh, fed).out

\* the second page of a job has written text
C16_Witness ==
    /\ pgState = "page"
    /\ pagesDone = 1
    /\ Len(fed) = 2
    /\ encOut # <<>>

----------------------------------------------------------------------------
(* Lines beyond the declared height *)

\* the lines of the page that came from ps_rwriteline, that came from padding
LinesFed == { i \in 1..Len(fed) : fed[i].kind = "line" }
LinesPadded == { i \in 1..Len(fed) : fed[i].kind = "pad" }

\* C17: ps_rwriteline hands a line to the encoder only while the line count
\* is below the declared height H; a later line is dropped, the callback
\* still returns true and the line count still goes up by one.  No page has
\* more than H lines encoded, and a page that received more than H lines is
\* not padded.
C17_Truncation ==
    pgState \in {"page", "pageEnd"} =>
       /\ Len(fed) <= hdr.height
       /\ Cardinality(LinesFed) = (IF rxLines < hdr.height THEN rxLines ELSE hdr.height)
       /\ devStatus.ret
       /\ rxLines > hdr.height => (lineCount = rxLines /\ LinesPadded = {})
       /\ pgState = "page" => lineCount = rxLines

\* a page has ended that received one line more than its height
C17_Witness ==
    /\ pgState = "pageEnd"
    /\ rxLines = hdr.height + 1
    /\ hdr.height = MaxHeight

----------------------------------------------------------------------------
(* The vendor options after an Update projection *)

\* the options of the PPD that can become vendor options
VendorCandidates ==
    { AllOptions[i].keyword : i \in
        { k \in 1..Len(AllOptions) :
             /\ Len(PpdChoices[AllOptions[k].keyword]) >= 2
             /\ ~IsInstallableGroup(AllOptions[k].group)
             /\ ~IsHandled(AllOptions[k].keyword)
             /\ PpdUi(AllOptions[k].keyword) \in {"PICKONE", "BOOLEAN"} } }

\* the vendor options with the two choices "true" and "false"
BooleanPairs == { opt \in VendorCandidates : IsBooleanPair(PpdChoices[opt]) }

\* the option is part of what the printer exposes
IsExposed(opt) ==
    /\ Unppdize(OptionText(opt)) \in Range(drv.vendor)
    /\ drv.attrs[Unppdize(OptionText(opt))].kind # "none"

\* the choices of the option that conflict with the accessories marked
Conflicting(opt) ==
    { k \in 1..Len(PpdChoices[opt]) :
         InstallableConflict(ppdMarked, opt, PpdChoices[opt][k].choice) }

\* C18 as stated: after an Update projection a vendor option with the two
\* choices "true" and "false" is not exposed exactly when both choices
\* conflict with the accessory configuration
C18_Original ==
    Projected =>
       \A opt \in BooleanPairs : ~IsExposed(opt) <=> Conflicting(opt) = {1, 2}

\* C18: after an Update projection a vendor option with the two choices
\* "true" and "false" is not exposed exactly when at least one of its two
\* choices conflicts with the accessory configuration; an option that is
\* exposed is a Boolean flag, and none of its choices conflicts
C18_BooleanPair ==
    Projected =>
       \A opt \in BooleanPairs :
          /\ ~IsExposed(opt) <=> Conflicting(opt) # {}
          /\ IsExposed(opt) => drv.attrs[Unppdize(OptionText(opt))].kind = "boolean"

\* every case has come up: both choices conflict, one does, none does
C18_Witness ==
    /\ Projected
    /\ Cardinality(Conflicting("Booklet")) = 1
    /\ ~IsExposed("Booklet")
    /\ ppdMarked["InstFinisher"] = "True"

\* the choice of the option does not conflict with the accessories marked
Free(opt, choice) == ~InstallableConflict(ppdMarked, opt, choice)

\* no PPD choice behind a name of the list conflicts
ListFree(list, maps, opt) ==
    \A i \in 1..Len(list) : \A k \in 1..Len(maps) :
        maps[k].pwg = list[i] => Free(opt, maps[k].ppd)

ResolutionsFree ==
    \A i \in 1..Len(drv.resolution) : \A k \in 1..Len(PpdChoices["Resolution"]) :
        ParseResolution(PpdChoices["Resolution"][k].choice) = drv.resolution[i]
           => Free("Resolution", PpdChoices["Resolution"][k].choice)

SidesFree ==
    /\ "two-sided-long-edge" \in drv.sides_supported => Free(SidesOption, Sides2SidedLong)
    /\ "two-sided-short-edge" \in drv.sides_supported => Free(SidesOption, Sides2SidedShort)

FinishingsFree ==
    \A f \in drv.finishings :
       \E n \in 1..Len(CacheFinishings) :
          /\ CacheFinishings[n].value = f
          /\ \A i \in 1..Len(CacheFinishings[n].options) :
                Free(CacheFinishings[n].options[i].name,
                     CacheFinishings[n].options[i].value)

VendorsFree ==
    \A opt \in { o \in VendorCandidates : IsExposed(o) } :
       LET attr == drv.attrs[Unppdize(OptionText(opt))]
       IN  \A k \in 1..Len(PpdChoices[opt]) :
              (\/ attr.kind = "boolean"
               \/ Unppdize(PpdChoices[opt][k].text) \in Range(attr.supported))
                 => Free(opt, PpdChoices[opt][k].choice)

----------------------------------------------------------------------------
(* Monochrome jobs *)

\* a job was resolved for which monochrome is selected: the device is not
\* a colour device, or the colour mode is neither auto nor colour
MonoResolved ==
    /\ jobResult = "returned"
    /\ ~ppdFile.color_device \/ jobReq.print_color_mode \notin {"auto", "color"}

\* the values the mono presets of the job's quality give ColorModel
PresetColorModel ==
    LET bucket == ppdFile.presets[1][IF jobReq.print_quality = "draft" THEN 1
                                     ELSE IF jobReq.print_quality = "high" THEN 3
                                     ELSE 2]
    IN  { bucket[k].value : k \in { n \in 1..Len(bucket) : bucket[n].name = "ColorModel" } }

\* the names of the choices of ColorModel
ColorModelChoices ==
    { ppdFile.color_model[k].choice : k \in 1..Len(ppdFile.color_model) }

\* C20 as stated: whenever monochrome is selected for a job, the resolved
\* set contains ColorModel=Gray, whatever the presets and the force-gray
\* option are
C20_Original ==
    MonoResolved =>
       HasOption(jobOptions, "ColorModel") /\ jobOptions["ColorModel"] = "Gray"

\* C20: whenever monochrome is selected for a job, the resolved set contains
\* a setting of ColorModel: the one of the presets if they have one, else
\* the one of the force-gray option if that option is ColorModel (Gray, or
\* Grayscale for a PPD without Gray), else ColorModel=Gray
C20_GrayHint ==
    MonoResolved =>
       /\ HasOption(jobOptions, "ColorModel")
       /\ jobOptions["ColorModel"] \in
             (IF PresetColorModel # {} THEN PresetColorModel
              ELSE IF "Gray" \in ColorModelChoices THEN {"Gray"}
              ELSE IF "Grayscale" \in ColorModelChoices THEN {"Grayscale"}
              ELSE {"Gray"})

\* a monochrome job on a colour device whose PPD has neither Gray nor
\* Grayscale and no preset for ColorModel: the hint is what sets ColorModel
C20_Witness ==
    /\ MonoResolved
    /\ ppdFile.color_device
    /\ ColorModelChoices = {"RGB", "Black"}
    /\ PresetColorModel = {}
    /\ jobOptions["ColorModel"] = "Gray"

----------------------------------------------------------------------------
(* C21 *)

\* the job asked for a bin that is one of pc->bins
BinMapped == CacheLookup(CacheBins, jobReq.output_bin) # ""

\* C21: once ps_create_job_data has returned, the resolved set holds the
\* machine choice of the requested output bin when the request is the PWG
\* name of one of the model's bins, and no OutputBin value at all when it
\* matches none of them
C21_OutputBinFallback ==
    jobResult = "returned" =>
        IF BinMapped
        THEN /\ HasOption(jobOptions, "OutputBin")
             /\ jobOptions["OutputBin"] = CacheLookup(CacheBins, jobReq.output_bin)
        ELSE ~HasOption(jobOptions, "OutputBin")

----------------------------------------------------------------------------
(* C22 *)

\* a step of a poll: the session is opened, an option is queried, the
\* session is closed, the web handler takes what the poll returned
PollStep == poll' # poll

\* the web handler takes the result of a poll that resolved no option
FailedPollTaken == poll.state = "done" /\ poll'.state = "applied" /\ poll.ret = 0

\* the web handler takes the result of a poll that resolved an option
PollTaken == poll.state = "done" /\ poll'.state = "applied" /\ poll.ret > 0

\* C22: a poll that resolved no option leaves the driver data (accessory
\* configuration, defaults, everything shown to clients) and the markings
\* of the PPD as they were and runs no driver setup; while polls are
\* going on, the accessory configuration changes only when the operator
\* sends the form of the accessories or when the handler takes a poll of
\* the accessories that resolved an option
C22_FailedPollFrame ==
    [][ /\ FailedPollTaken =>
             drv' = drv /\ ppdMarked' = ppdMarked /\ projAct' = projAct
        /\ PollStep /\ ~PollTaken =>
             drv' = drv /\ ppdMarked' = ppdMarked /\ projAct' = projAct
        /\ drv'.installable_default # drv.installable_default =>
             \/ PollTaken /\ poll.installable /\ projAct' = "poll-installable"
             \/ ~PollStep /\ projAct' = "set-installable" ]_vars

\* a session that queried the printer and got no answer it could use is
\* over and the handler has taken its result
C22_Witness ==
    /\ poll.state = "applied"
    /\ poll.opened
    /\ poll.ret = 0
    /\ poll.exhausted # {}
    /\ projAct = "set-installable"

----------------------------------------------------------------------------
(* C23 *)

\* the choices of an exposed vendor option that callers are shown: both
\* choices of a Boolean flag, the keywords of "<name>-supported" otherwise
Listed(opt) ==
    LET attr == drv.attrs[Unppdize(OptionText(opt))]
    IN  { k \in 1..Len(PpdChoices[opt]) :
             \/ attr.kind = "boolean"
             \/ Unppdize(PpdChoices[opt][k].text) \in Range(attr.supported) }

\* the choices shown that the accessory configuration lets one select
Selectable(opt) == { k \in Listed(opt) : Free(opt, PpdChoices[opt][k].choice) }

ExposedOptions == { opt \in VendorCandidates : IsExposed(opt) }

\* C23 as stated: after a projection, Init or Update, every vendor option
\* exposed has at least two choices that can be selected under the
\* accessory configuration
C23_Original ==
    projAct \in {"init", "status", "set-installable"} =>
       \A opt \in ExposedOptions : Cardinality(Selectable(opt)) >= 2

\* C23: after an Update projection every vendor option exposed has at
\* least two choices that can be selected under the accessory
\* configuration; after the Init projection every vendor option exposed
\* shows all the choices of the PPD, at least two, whether the accessory
\* configuration lets one select them or not
C23_NoDegenerateOption ==
    /\ Projected =>
          \A opt \in ExposedOptions : Cardinality(Selectable(opt)) >= 2
    /\ projAct = "init" =>
          \A opt \in ExposedOptions :
             /\ Listed(opt) = 1..Len(PpdChoices[opt])
             /\ Len(PpdChoices[opt]) >= 2

\* the finisher was taken away: stapling is down to one choice and is not
\* exposed, toner saving keeps its two choices and is
C23_Witness ==
    /\ Projected
    /\ ppdMarked["InstFinisher"] = "False"
    /\ Cardinality(Conflicting("StapleLocation")) = 2
    /\ ~IsExposed("StapleLocation")
    /\ IsExposed("TonerSave")

----------------------------------------------------------------------------
(* C24 *)

\* C24: every value recorded for an option in a poll session is text the
\* device sent in answer to the query of that very option
C24_NoMisattribution ==
    \A opt \in DOMAIN poll.defaults :
        opt \in DOMAIN poll.origin => poll.origin[opt] = opt

----------------------------------------------------------------------------
(* C25 *)

\* what a job writes for its page when no other job prints: the bytes of
\* its lines through ps_ascii85 from the initial static state, then the
\* final flush (the characters written do not depend on how the bytes are
\* cut into lines)
AloneOut(bytes) ==
    LET lines == Ascii85(0, <<>>, bytes, FALSE)
    IN  lines.out \o Ascii85(lines.col, lines.rem, <<>>, TRUE).out

\* C25: when two jobs on two printers are streamed at the same time, the
\* page data of each job is what the job writes when it prints alone
C25_EncoderIsolation ==
    \A j \in TwoJobs : encDone[j] => encOut[j] = AloneOut(encIn[j])

----------------------------------------------------------------------------
(* C28 *)

\* the characters of the groups written in a session that has ended: what
\* was written without the end-of-data marker and the line ends
GroupChars ==
    SelectSeq(SubSeq(encOut, 1, Len(encOut) - 3), LAMBDA c : c # ChNewline)

\* what is left of the characters after k groups, a group being the
\* character z or five characters
RECURSIVE AfterGroups(_, _)
AfterGroups(chars, k) ==
    IF k = 0 \/ chars = <<>> THEN chars
    ELSE AfterGroups(SubSeq(chars, (IF Head(chars) = ChZ THEN 2 ELSE 6), Len(chars)),
                     k - 1)

\* the characters written for the bytes that follow the last full group of
\* four
FinalGroup == AfterGroups(GroupChars, Len(encIn) \div 4)

\* C28: when the bytes handed over leave n bytes, n from 1 to 3, for the
\* final flush, the last group written has n + 1 characters and is not the
\* shorthand z
C28_FinalPartialGroup ==
    (encDone /\ Len(encIn) % 4 # 0) =>
        /\ Len(FinalGroup) = (Len(encIn) % 4) + 1
        /\ FinalGroup # <<ChZ>>

----------------------------------------------------------------------------
(* C26 *)

\* the choices marked in the PPD of the printer of SpecGray when the
\* driver setup has run and no job has been processed yet: the printer's
\* defaults under its accessory configuration
SetupMarks == AfterForm(NoFinisherForm).m

\* C26: the choices that govern a job -- the resolved set, and the markings
\* of the PPD from which ps_rstartjob emits the setup code -- are those the
\* job's own options give on the markings of the printer's defaults,
\* whatever jobs were processed before
C26_JobIndependence ==
    jobResult = "returned" =>
        /\ jobOptions = CreateJobData(jobReq, drv, SetupMarks).opts
        /\ ppdMarked = JobMark(SetupMarks, jobOptions)

----------------------------------------------------------------------------
(* C27 *)

\* the default of a list after a projection in Update mode: the old default
\* when the new list still has it, the entry at index 0 otherwise
TieBreak(oldDef, list, newDef) ==
    IF oldDef \in Range(list) THEN newDef = oldDef ELSE newDef = list[1]

ResTieBreak(d, e) ==
    TieBreak(<<d.x_default, d.y_default>>, e.resolution,
             <<e.x_default, e.y_default>>)

SourceTieBreak(d, e) ==
    TieBreak(d.media_default.source, e.source, e.media_default.source)

TypeTieBreak(d, e) ==
    TieBreak(d.media_default.type, e.type, e.media_default.type)

SizeTieBreak(d, e) ==
    TieBreak(d.media_default.size_name, e.media, e.media_default.size_name)

BinTieBreak(d, e) ==
    TieBreak(d.bin[d.bin_default + 1], e.bin, e.bin[e.bin_default + 1])

EnumTieBreak(d, e) ==
    \A n \in VendorNames :
        (d.attrs[n].kind = "keyword" /\ e.attrs[n].kind = "keyword") =>
            TieBreak(d.attrs[n].default, e.attrs[n].supported, e.attrs[n].default)

\* the step is a projection in Update mode
UpdateStep == projAct' \in {"status", "set-installable"}

\* the first choice of an option, in the order of the PPD, that the
\* installed accessories marked in m do not rule out
FirstOffered(m, opt) ==
    LET ok == { i \in 1..Len(PpdChoices[opt]) :
                   ~InstallableConflict(m, opt, PpdChoices[opt][i].choice) }
    IN  PpdChoices[opt][CHOOSE i \in ok : \A k \in ok : i <= k].choice

\* the list of resolutions is sorted after the default is chosen
ResFirstAccepted(d, e, m) ==
    IF <<d.x_default, d.y_default>> \in Range(e.resolution)
    THEN <<e.x_default, e.y_default>> = <<d.x_default, d.y_default>>
    ELSE <<e.x_default, e.y_default>> =
             ParseResolution(FirstOffered(m, "Resolution"))

\* the tie-break of the lists that keep the order of the PPD
UnsortedTieBreak(d, e) ==
    /\ SourceTieBreak(d, e)
    /\ TypeTieBreak(d, e)
    /\ SizeTieBreak(d, e)
    /\ BinTieBreak(d, e)
    /\ EnumTieBreak(d, e)

----------------------------------------------------------------------------
(* C29 *)

\* the options whose queries a session has written so far
PollQueried == SubSeq(PollList(poll.installable), 1, poll.pos - 1)

\* what a session that opened the device has written before its end
PollWritten ==
    <<"header", "errorhandler">>
    \o [i \in 1..Len(PollQueried) |-> "?" \o PollQueried[i].keyword]

\* the read loop of an option came to its end: the setting was recorded,
\* the option was marked unresolved, or the reads were used up
PollSettled(opt) ==
    \/ opt \in DOMAIN poll.defaults
    \/ opt \in poll.exhausted
    \/ poll.status = 1

\* C29: a poll session that opened the device has written the preamble
\* with the error trap once and before any query, then the query of every
\* eligible option tried so far exactly once, in the order of the PPD, and
\* nothing else before its end, whatever the reads gave; when the query of
\* an option is written every option before it was recorded, marked
\* unresolved or has used up its reads
C29_QueriesOnce ==
    poll.opened =>
        /\ SubSeq(poll.out, 1, Len(PollWritten)) = PollWritten
        /\ Len(poll.out) = Len(PollWritten) + (IF poll.state = "polling" THEN 0 ELSE 2)
        /\ Count(poll.out, "errorhandler") = 1
        /\ \A i \in 1..Len(PollQueried) :
               /\ Count(poll.out, "?" \o PollQueried[i].keyword) = 1
               /\ PollSettled(PollQueried[i].keyword)

\* a session in which the reads of one option were used up and another
\* option was recorded, before its end
C29_Witness ==
    /\ poll.state = "polling"
    /\ poll.opened
    /\ Len(PollQueried) >= 2
    /\ poll.exhausted # {}
    /\ poll.reads > 1
    /\ poll.defaults # NoOptions

----------------------------------------------------------------------------
(* C30 *)

\* the parts of the device stream that are raster lines, padding or other
\* data of a page
PageData ==
    {"data", "~>"} \cup Range(PageTrailer)
    \cup UNION { Range(PageProlog(n)) : n \in 1..MaxPages }

\* what the job wrote to its device stream after its cancellation was
\* signalled
AfterCancel == SubSeq(devOut, devStatus.canceled + 1, Len(devOut))

\* C30: once the cancellation of a job is signalled no raster line, no
\* padding and no other data of a page are written for the job, and when
\* the job has ended the device stream is ended and closed
C30_Cancellation ==
    devStatus.canceled >= 0 =>
        /\ \A i \in 1..Len(AfterCancel) : AfterCancel[i] \notin PageData
        /\ pgState = "idle" => devOut[Len(devOut)] = EndOfJob(drv)

----------------------------------------------------------------------------
(* C31 *)

\* C31: after every projection sides_default is one of the modes of
\* sides_supported; a two-sided default whose mode an Update has removed is
\* replaced by one-sided, and the one-sided choice is marked then
C31_SidesDefaultLegal ==
    projAct \in {"init", "status", "set-installable"} =>
        /\ drv.sides_default \in drv.sides_supported
        /\ drv.sides_supported = {"one-sided"} => ppdMarked[SidesOption] = Sides1Sided

----------------------------------------------------------------------------
(* C32 *)

\* C32: after every projection the lists of sources, types, sizes, bins and
\* resolutions are not empty, bin_default is an index below num_bin, and
\* media_default names a size, a source and a type of the lists
C32_DefaultsAreMembers ==
    projAct \in {"init", "status", "set-installable"} =>
        /\ Len(drv.source) > 0 /\ Len(drv.type) > 0 /\ Len(drv.media) > 0
        /\ Len(drv.bin) > 0 /\ Len(drv.resolution) > 0
        /\ drv.bin_default \in 0..(Len(drv.bin) - 1)
        /\ <<drv.x_default, drv.y_default>> \in Range(drv.resolution)
        /\ drv.media_default.size_name \in Range(drv.media)
        /\ drv.media_default.source \in Range(drv.source)
        /\ drv.media_default.type \in Range(drv.type)

----------------------------------------------------------------------------
(* C33 *)

\* the web handler has used a poll of the installable accessories that
\* resolved an option
PolledInstallables ==
    /\ poll.state = "done" /\ poll'.state = "applied"
    /\ poll.installable
    /\ PollReturn(poll.defaults, poll.status) > 0

\* C33: the flag is clear after Init; a status callback that finds it clear
\* runs the Update projection, which sets it; a status callback that finds
\* it set changes nothing; the accessories form and a poll of installable
\* accessories that resolved an option leave the flag set, their Update
\* projection done when the request completes
C33_UpdatedFlag ==
    [][/\ projAct = "init" => ~drv.updated
       /\ (projAct' = "status" /\ ~drv.updated) => drv'.updated
       /\ (projAct' = "status" /\ drv.updated) =>
             (drv' = drv /\ ppdMarked' = ppdMarked)
       /\ projAct' = "set-installable" => drv'.updated
       /\ PolledInstallables =>
             (drv'.updated /\ projAct' = "poll-installable")]_vars

\* a status callback after the accessories were set by the form or by a
\* poll, with the flag set
C33_Witness ==
    /\ projAct = "status"
    /\ drv.updated
    /\ drv.installable_default # <<>>

----------------------------------------------------------------------------
(* C34 *)

\* C34: when ps_rstartpage has run and no line of the page is written yet,
\* the encoder holds no pending byte and stands at column 0, whatever the
\* callbacks before did, a page given up before ps_rendpage included
C34_CleanEncoderAtPageStart ==
    (pgState = "page" /\ rxLines = 0) => (encCol = 0 /\ encRemaining = <<>>)

----------------------------------------------------------------------------
(* The read loop of one option, pass by pass (SpecRead).  The device sends *)
(* one or two lines and the transport hands them to the reads in pieces.   *)
(* In this specification poll holds the loop of one option: opt and choice *)
(* name what was asked and what the device answers, kind the sort of       *)
(* delivery, st the loop, ref what the loop comes to when the same bytes   *)
(* arrive in one read.                                                     *)

\* the options whose loop is followed
ReadOptions == {"InstDuplexer", "Duplex"}

\* the name of a choice as the tokens the transport may cut it into
WordParts(w) ==
    CASE w = "True" -> <<"Tr", "ue">>
      [] w = "False" -> <<"Fal", "se">>
      [] w = "None" -> <<"No", "ne">>
      [] w = "DuplexNoTumble" -> <<"Duplex", "NoTumble">>
      [] OTHER -> <<w>>

\* the lines a device answers with the choice c
AnswerLines(c) ==
    { WordParts(c) \o <<"\n">>, <<" ">> \o WordParts(c) \o <<"\r", "\n">> }

\* a line that is no choice of any option, and the answer after it
TwoLines(c) == <<"junk", "\n", c, "\n">>

\* every way to hand the tokens b to consecutive reads
RECURSIVE Cuts(_)
Cuts(b) ==
    IF Len(b) <= 1 THEN { <<b>> }
    ELSE { <<<<Head(b)>>>> \o r : r \in Cuts(Tail(b)) }
         \cup { <<<<Head(b)>> \o Head(r)>> \o Tail(r) : r \in Cuts(Tail(b)) }

\* n reads without bytes
Empties(n) == [i \in 1..n |-> <<>>]

\* g reads without bytes between the pieces
RECURSIVE Spaced(_, _)
Spaced(pieces, g) ==
    IF Len(pieces) <= 1 THEN pieces
    ELSE <<Head(pieces)>> \o Empties(g) \o Spaced(Tail(pieces), g)

\* the reads without bytes before the first byte arrives
MaxWait == PollRetries - 1

Waits == {0, 1, MaxWait - 1, MaxWait}

\* what a loop has come to
Result(r) == [kind |-> r.kind, text |-> Text(r.buf)]

ReadStart(opt, c, kind, e, whole, pieces) ==
    [ state |-> "reading", opt |-> opt, choice |-> c, kind |-> kind,
      st |-> Reading(Empties(e) \o pieces, 0, <<>>, 0),
      ref |-> Result(ReadLoop(opt, Empties(e) \o <<whole>>, 0, <<>>, 0)) ]

\* the option asked and the choice the device answers
Asked == { <<opt, PpdChoices[opt][n].choice>> : opt \in ReadOptions, n \in 1..2 }

\* an answer line in pieces
Fragmented ==
    UNION { UNION { { ReadStart(a[1], a[2], "fragments", x[2], line, Spaced(x[1], x[3])) :
                        x \in Cuts(line) \X Waits \X (0..1) } :
                    line \in AnswerLines(a[2]) } :
            a \in Asked }

\* a line that is no answer and the answer line, in pieces
TwoLined ==
    UNION { { ReadStart(a[1], a[2], "lines", x[2], TwoLines(a[2]), Spaced(x[1], x[3])) :
                x \in Cuts(TwoLines(a[2])) \X (0..1) \X (0..1) } :
            a \in Asked }

InitRead ==
    /\ encCol = 0
    /\ encRemaining = <<>>
    /\ encOut = <<>>
    /\ encIn = <<>>
    /\ encTodo = <<>>
    /\ encDone = FALSE
    /\ pgState = "idle"
    /\ lineCount = 0
    /\ hdr = NoHeader
    /\ rxLines = 0
    /\ fed = <<>>
    /\ pagesDone = 0
    /\ devOut = <<>>
    /\ devStatus = NoDevStatus
    /\ ppdFile = ModelPpd
    /\ jobReq = NoJob
    /\ jobOptions = NoOptions
    /\ jobSteps = <<>>
    /\ jobResult = "none"
    /\ drv = AfterForm(NoFinisherForm).d
    /\ ppdMarked = AfterForm(NoFinisherForm).m
    /\ projAct = "set-installable"
    /\ cycle = NoCycle
    /\ poll \in Fragmented \cup TwoLined

\* lines 2692-2802: one pass of the loop
ReadStep ==
    /\ poll.st.kind = "reading"
    /\ poll' = [poll EXCEPT !.st = ReadPass(poll.opt, poll.st)]
    /\ UNCHANGED <<encVars, pageVars, projVars, jobVars>>

NextRead == ReadStep

SpecRead == InitRead /\ [][NextRead]_vars

\* the loop has ended
ReadEnded == poll.st.kind # "reading"

\* C35: an answer line that arrives in pieces, with reads without bytes in
\* between, is recorded as it is when it arrives in one read; the reads
\* without bytes are fewer than the ceiling in every delivery
C35_FragmentsAccumulate ==
    (poll.kind = "fragments" /\ ReadEnded) => Result(poll.st) = poll.ref

\* C36: when a line that is no choice and after it the line with a declared
\* choice are handed over, in one read or in pieces, the choice is recorded:
\* the loop does not go on reading after it has taken both
C36_PerLineClassification ==
    poll.kind = "lines" =>
        \/ poll.st.kind = "reading" /\ poll.st.script # <<>>
        \/ Result(poll.st) = [kind |-> "recorded", text |-> poll.choice]

----------------------------------------------------------------------------
(* C37 *)

\* line 1583: the slots j with which source[j] is read by the loop over the
\* cache sources from i on
RECURSIVE SourceReads(_, _, _, _)
SourceReads(d, i, j, ub) ==
    IF i > Len(CacheSources) \/ j >= PAPPL_MAX_SOURCE THEN {}
    ELSE {j} \cup SourceReads(d, i + 1,
                              IF SourceMatches(d, i, j, ub) THEN j + 1 ELSE j, ub)

\* lines 1593-1597 and 1640-1648 on the table mr for the slot j and the
\* source pwg: media_ready[k] is read after the search, and the evicted item
\* is written to media_ready[k - 1]
ReadyInBounds(mr, j, pwg) ==
    /\ FindSlot(mr, j, pwg) \in 0..(PAPPL_MAX_SOURCE - 1)
    /\ InsertUpTo(mr, FindSlot(mr, j, pwg), pwg) \in j..(PAPPL_MAX_SOURCE - 1)
    /\ FindEnd(mr, j + 1) - 1 \in j..(PAPPL_MAX_SOURCE - 1)

\* C37: in an Update projection every read of source[j] is a read of an
\* exposed source (j < num_source), and on the table the projection leaves
\* the searches, block moves and writes of the next projection stay in the
\* slots 0 .. PAPPL_MAX_SOURCE-1
C37_BoundedTableAccesses ==
    projAct = "set-installable" =>
        /\ \A ub \in UbOutcomes(ppdMarked) :
              \A j \in SourceReads(drv, 1, 0, ub) : j < Len(drv.source)
        /\ \A i \in 1..Len(CacheSources), j \in 0..Len(drv.source) :
              ReadyInBounds(drv.media_ready, j, CacheSources[i].pwg)

----------------------------------------------------------------------------
(* C38 *)

\* the values a vendor attribute can take on the exposed surface
VendorShown(d, name) ==
    IF d.attrs[name].kind = "boolean" THEN {"true", "false"}
    ELSE Range(d.attrs[name].supported)

\* the machine choice of the PPD option opt that the value v stands for
MachineChoice(opt, v) ==
    PpdChoices[opt][CHOOSE j \in 1..Len(PpdChoices[opt]) :
        /\ Unppdize(PpdChoices[opt][j].text) = v
        /\ \A j2 \in 1..(j - 1) : Unppdize(PpdChoices[opt][j2].text) # v].choice

\* the job's value, or else the default, of vendor[i] is an exposed choice
\* that the accessories allow
VendorMappable(job, d, m, i) ==
    /\ d.vendor[i] \in DOMAIN d.attrs
    /\ d.attrs[d.vendor[i]].kind # "none"
    /\ VendorValue(job, d, d.vendor[i]) \in VendorShown(d, d.vendor[i])
    /\ ~InstallableConflict(m, d.vendor_ppd_options[i],
                            MachineChoice(d.vendor_ppd_options[i],
                                          VendorValue(job, d, d.vendor[i])))

\* C38: when ps_create_job_data has run for a job, every exposed vendor
\* option, Boolean or enumerated, whose value (the job's, or else the
\* default) is an exposed choice that the accessories allow is in the
\* resolved set with the machine choice of that value
C38_VendorMapping ==
    (projAct = "job" /\ jobResult # "none") =>
        \A i \in 1..VendorCount(drv) :
            VendorMappable(jobReq, drv, ppdMarked, i) =>
                /\ jobResult = "returned"
                /\ drv.vendor_ppd_options[i] \in DOMAIN jobOptions
                /\ jobOptions[drv.vendor_ppd_options[i]] =
                      MachineChoice(drv.vendor_ppd_options[i],
                                    VendorValue(jobReq, drv, drv.vendor[i]))

----------------------------------------------------------------------------
(* C39 *)

\* no line of the text out has more than n characters before its newline:
\* among any n + 1 characters in a row there is a newline
LinesWithin(out, n) ==
    \A i \in 1..(Len(out) - n) : \E k \in i..(i + n) : out[k] = ChNewline

\* C39: on return from every call of ps_ascii85 the column is in 0..74, and
\* no line of what the encoder has written to a device is longer than 79
\* characters
C39_LineWrapping ==
    /\ encCol \in 0..74
    /\ \A j \in TwoJobs : LinesWithin(encOut[j], 79)

----------------------------------------------------------------------------
(* ps_autoadd (SpecAutoAdd).  A device ID is the keys it has, the entries  *)
(* of its command set, and its make and model; the command set is a string *)
(* of characters, the entries joined by commas.  In this specification     *)
(* poll holds the device found, the driver list of the system and the      *)
(* driver name returned.                                                   *)

\* NULL as return value and as value of a key the ID does not have
NoDriver == ""

\* the words looked for in the command set, character by character
WordPostScript == <<"P", "O", "S", "T", "S", "C", "R", "I", "P", "T">>
WordBrScript   == <<"B", "R", "S", "C", "R", "I", "P", "T">>
WordPs         == <<"P", "S">>
WordPs2        == <<"P", "S", "2">>
WordPs3        == <<"P", "S", "3">>

\* the entries the command sets of the devices are made of
CmdEntries ==
    { WordPostScript, WordBrScript, WordPs, WordPs2, WordPs3, <<"p", "s">>,
      <<"P", "C", "L">>, <<"X", "P", "S">>, <<"E", "P", "S", "O", "N">> }

\* the entries joined by commas
RECURSIVE JoinEntries(_)
JoinEntries(es) ==
    IF es = <<>> THEN <<>>
    ELSE IF Len(es) = 1 THEN es[1]
    ELSE es[1] \o <<",">> \o JoinEntries(Tail(es))

\* the letters of the model without regard to case
Fold(c) == CASE c = "p" -> "P" [] c = "s" -> "S" [] OTHER -> c

\* strcasestr(cmd, word): the place of the first occurrence, 0 for NULL
Find(cmd, word) ==
    IF \E i \in 1..(Len(cmd) - Len(word) + 1) :
          \A k \in 1..Len(word) : Fold(cmd[i + k - 1]) = word[k]
    THEN CHOOSE i \in 1..(Len(cmd) - Len(word) + 1) :
          /\ \A k \in 1..Len(word) : Fold(cmd[i + k - 1]) = word[k]
          /\ \A i2 \in 1..(i - 1) :
                \E k \in 1..Len(word) : Fold(cmd[i2 + k - 1]) # word[k]
    ELSE 0

\* ps[n] is ',' or the end of the string, for ps at place p
EndsAt(cmd, p, n) == p + n > Len(cmd) \/ cmd[p + n] = ","

\* lines 363-372: the value ps has when the chain of tests is left, 0 when
\* no test accepted
PsPointer(cmd) ==
    IF Find(cmd, WordPostScript) # 0 THEN Find(cmd, WordPostScript)
    ELSE IF Find(cmd, WordBrScript) # 0 THEN Find(cmd, WordBrScript)
    ELSE IF Find(cmd, WordPs) # 0 /\ EndsAt(cmd, Find(cmd, WordPs), 2)
    THEN Find(cmd, WordPs)
    ELSE IF Find(cmd, WordPs2) # 0 /\ EndsAt(cmd, Find(cmd, WordPs2), 3)
    THEN Find(cmd, WordPs2)
    ELSE IF Find(cmd, WordPs3) # 0 /\ EndsAt(cmd, Find(cmd, WordPs3), 3)
    THEN Find(cmd, WordPs3)
    ELSE 0

\* lines 363-378 negated: the device is taken as a PostScript printer
TakenAsPostScript(id) ==
    /\ "CMD" \in id.keys
    /\ PsPointer(id.cmd) # 0
    /\ (PsPointer(id.cmd) = 1 \/ id.cmd[PsPointer(id.cmd) - 1] = ",")

\* ieee1284NormalizeMakeAndModel(..., IEEE1284_NORMALIZE_IPP, ...)
NormalizeMakeAndModel(mfg, mdl) ==
    CASE mfg = "HP" /\ mdl = "LaserJet 4" -> "hp-laserjet-4"
      [] mfg = "Foo" /\ mdl = "Bar 1" -> "foo-bar-1"
      [] OTHER -> "unknown"

\* the driver list entries of the model; mfg and mdl are the fields of the
\* entry's device ID ("" for none)
Driver(name, mfg, mdl) == [name |-> name, mfg |-> mfg, mdl |-> mdl]

GenericDriver == Driver("generic", "", "")
HpEn == Driver("hp-laserjet-4--en", "HP", "LaserJet 4")
HpDe == Driver("hp-laserjet-4--de", "HP", "LaserJet 4")
HpUser == Driver("hp-laserjet-4-user-added", "", "")

\* strncmp(buf, name, strlen(buf)) == 0
NameStartsWith(name, buf) ==
    buf = "hp-laserjet-4" /\ name \in {HpEn.name, HpDe.name, HpUser.name}

\* strstr(name, "-user-added")
NameUserAdded(name) == name = HpUser.name

\* the name ends in "--en" or has "--en-" before its last two characters
NameEnglish(name) == name = HpEn.name

\* lines 397-438: the score of one entry of the driver list
Score(id, drv1) ==
    LET base == IF /\ drv1.mfg # "" /\ drv1.mdl # ""
                   /\ Lower(id.mfg) = Lower(drv1.mfg)
                   /\ Lower(id.mdl) = Lower(drv1.mdl)
                THEN 2
                ELSE IF NameStartsWith(drv1.name,
                                       NormalizeMakeAndModel(id.mfg, id.mdl))
                THEN 1 ELSE 0
    IN IF base = 0 THEN 0
       ELSE base + (IF NameUserAdded(drv1.name) THEN 32 ELSE 0)
                 + (IF NameEnglish(drv1.name) THEN 4 ELSE 0)

\* lines 395-446: the loop over the entries from index 1 on (counted from 0
\* as in the code); the result is best
RECURSIVE BestLoop(_, _, _, _, _)
BestLoop(id, drivers, i, best, best_score) ==
    IF i >= Len(drivers) THEN best
    ELSE IF Score(id, drivers[i + 1]) > best_score
    THEN BestLoop(id, drivers, i + 1, i, Score(id, drivers[i + 1]))
    ELSE BestLoop(id, drivers, i + 1, best, best_score)

Best(id, drivers) ==
    IF {"MFG", "MDL"} \subseteq id.keys THEN BestLoop(id, drivers, 1, -1, 0)
    ELSE -1

\* lines 452-457: strcasecmp(drivers[0].name, "generic") is not 0
Fallback(name) == IF Lower(name) # "generic" THEN "generic" ELSE NoDriver

\* lines 323-465
AutoAddOf(id, drivers) ==
    IF Len(drivers) = 0 \/ id.keys = {} THEN NoDriver
    ELSE IF ~TakenAsPostScript(id) THEN NoDriver
    ELSE IF Best(id, drivers) >= 0 THEN drivers[Best(id, drivers) + 1].name
    ELSE Fallback(drivers[1].name)

\* the device IDs: with or without command set (of one or two entries), of
\* a model the drivers know, of another model, or without make and model
DeviceIds ==
    { [keys |-> {}, entries |-> <<>>, cmd |-> <<>>, mfg |-> "", mdl |-> ""] }
    \cup
    { [keys |-> (IF es = <<>> THEN {} ELSE {"CMD"})
                \cup (IF mm[1] = "" THEN {} ELSE {"MFG", "MDL"}),
       entries |-> es, cmd |-> JoinEntries(es), mfg |-> mm[1], mdl |-> mm[2]] :
        es \in {<<>>} \cup { <<e>> : e \in CmdEntries }
                      \cup { <<e1, e2>> : e1 \in CmdEntries, e2 \in {WordPs, <<"P", "C", "L">>} },
        mm \in { <<"HP", "LaserJet 4">>, <<"Foo", "Bar 1">>, <<"", "">> } }

\* the driver lists ps_setup_driver_list builds (3840-3851): the generic
\* driver first when a generic PPD was found, then the drivers of the PPDs
DriverLists ==
    { <<>>, <<GenericDriver>>, <<GenericDriver, HpEn>>, <<GenericDriver, HpDe, HpEn>>,
      <<GenericDriver, HpUser, HpEn>>, <<HpEn>>, <<HpDe, HpEn>> }

NoReturn == "-"

InitAutoAdd ==
    /\ encCol = 0
    /\ encRemaining = <<>>
    /\ encOut = <<>>
    /\ encIn = <<>>
    /\ encTodo = <<>>
    /\ encDone = FALSE
    /\ pgState = "idle"
    /\ lineCount = 0
    /\ hdr = NoHeader
    /\ rxLines = 0
    /\ fed = <<>>
    /\ pagesDone = 0
    /\ devOut = <<>>
    /\ devStatus = NoDevStatus
    /\ ppdFile = ModelPpd
    /\ jobReq = NoJob
    /\ jobOptions = NoOptions
    /\ jobSteps = <<>>
    /\ jobResult = "none"
    /\ drv = EmptyDriver
    /\ ppdMarked = PpdDefaults
    /\ projAct = "none"
    /\ cycle = NoCycle
    /\ poll \in { [state |-> "found", id |-> id, drivers |-> l, ret |-> NoReturn] :
                    id \in DeviceIds, l \in DriverLists }

\* PAPPL calls ps_autoadd for the device found
AutoAdd ==
    /\ poll.state = "found"
    /\ poll' = [poll EXCEPT !.state = "called",
                            !.ret = AutoAddOf(poll.id, poll.drivers)]
    /\ UNCHANGED <<encVars, pageVars, projVars, jobVars>>

NextAutoAdd == AutoAdd

SpecAutoAdd == InitAutoAdd /\ [][NextAutoAdd]_vars

\* the ID declares PostScript: an entry of its command set is PS, PS2 or
\* PS3, or begins with POSTSCRIPT or BRSCRIPT, in any case of the letters
EntryIsPostScript(e) ==
    \/ [k \in 1..Len(e) |-> Fold(e[k])] \in {WordPs, WordPs2, WordPs3}
    \/ Find(e, WordPostScript) = 1
    \/ Find(e, WordBrScript) = 1

DeclaresPostScript(id) ==
    "CMD" \in id.keys /\ \E k \in 1..Len(id.entries) : EntryIsPostScript(id.entries[k])

\* no entry of the driver list is a driver for the make and model of the ID
MatchesNoDriver(id, drivers) ==
    \A k \in 1..Len(drivers) :
        /\ ~(drivers[k].mfg # "" /\ Lower(id.mfg) = Lower(drivers[k].mfg)
                                /\ Lower(id.mdl) = Lower(drivers[k].mdl))
        /\ ~NameStartsWith(drivers[k].name, NormalizeMakeAndModel(id.mfg, id.mdl))

HasGeneric(drivers) == \E k \in 1..Len(drivers) : Lower(drivers[k].name) = "generic"

\* C40: for a device whose ID declares PostScript and matches no driver,
\* ps_autoadd returns "generic" when the driver list has a generic driver
\* and NULL when it has none; a device whose ID does not declare PostScript
\* gets NULL
C40_GenericFallback ==
    poll.state = "called" =>
        /\ (DeclaresPostScript(poll.id) /\ MatchesNoDriver(poll.id, poll.drivers)) =>
              poll.ret = IF HasGeneric(poll.drivers) THEN "generic" ELSE NoDriver
        /\ ~DeclaresPostScript(poll.id) => poll.ret = NoDriver

====
